---- MODULE Spec2Model ----
(***************************************************************************)
(* Teletext Zero: the navigation hook (src/src/hooks/useNavigation.ts),    *)
(* the screen sequencer (src/src/components/TeletextScreen.tsx) and the    *)
(* page registry (pages/registry, src/src/services/api.ts).                *)
(*                                                                         *)
(* A JavaScript string is a sequence of one-character strings, so that     *)
(* length, concatenation, the /^[0-9]$/ test and parseInt are computed.    *)
(* React state setters called in one event handler or timer callback are   *)
(* batched (React 19), and the effects of the resulting render are taken   *)
(* in the same step as the state change that causes them.                  *)
(***************************************************************************)
EXTENDS Integers, Sequences, FiniteSets, TLC

\* ---------------------------------------------------------------- bounds
\* Longest recorded run of hook operations inside one entry (ghost trace).
MaxTrace == 6
\* Most zero-delay timers pending at once.
MaxTimers == 2
\* Most dynamic-content fetches in flight for one page.
MaxFetches == 2

\* ---------------------------------------------------------------- inputs
DigitChars == {"0", "1", "2", "3", "4", "5", "6", "7", "8", "9"}

\* Keys handed to addDigit: two digit keys, a letter, a two-character
\* string of digits and the empty string.
DigitKeys == { <<"0">>, <<"2">> }
OtherKeys == { <<"a">>, <<"2", "0">>, <<>> }
Keys == DigitKeys \cup OtherKeys

\* Targets handed to navigateToPage.
NavTargets == {100, 300}

\* Pages of the registry that declare a dynamicContent loader.
DynamicPages == {200, 300, 400, 500}
HasDynamic(pageNumber) == pageNumber \in DynamicPages

InitialPage == 100
NaN == -1

\* Pages handed to TeletextScreen as its currentPage prop: the index, two
\* pages with a loader and a number without a page.
ScreenPages == {100, 200, 300, 404}

\* Delays of the screen's timers and the transition budget, in ms.
BootDelay == 1000
LoadingDelay == 100
TransitionDelay == 100
TransitionBudget == 500
\* Time advances in steps of the shortest timer delay.
TickMs == LoadingDelay
\* The clock stops counting once the boot sequence is over.
ClockCap == BootDelay + LoadingDelay + TickMs

\* --------------------------------------------------------------- helpers
DigitVal(c) ==
  CASE c = "0" -> 0 [] c = "1" -> 1 [] c = "2" -> 2 [] c = "3" -> 3
    [] c = "4" -> 4 [] c = "5" -> 5 [] c = "6" -> 6 [] c = "7" -> 7
    [] c = "8" -> 8 [] c = "9" -> 9

\* Variant: the test without its end anchor, /^[0-9]/.
IsDigitKey_Loose(digit) == Len(digit) >= 1 /\ digit[1] \in DigitChars

\* /^[0-9]$/.test(digit): exactly one character, and it is a decimal digit.
IsDigitKey(digit) == Len(digit) = 1 /\ digit[1] \in DigitChars

RECURSIVE ParseDigits(_, _, _)
ParseDigits(s, i, acc) ==
  IF i > Len(s) \/ s[i] \notin DigitChars THEN acc
  ELSE ParseDigits(s, i + 1, 10 * acc + DigitVal(s[i]))

RECURSIVE ParseOctalDigits(_, _, _)
ParseOctalDigits(s, i, acc) ==
  IF i > Len(s) \/ s[i] \notin {"0", "1", "2", "3", "4", "5", "6", "7"} THEN acc
  ELSE ParseOctalDigits(s, i + 1, 8 * acc + DigitVal(s[i]))

\* Variant: parseInt(s) without the radix, in an engine that reads a
\* leading "0" as octal.
ParseInt_Octal(s) ==
  IF Len(s) = 0 \/ s[1] \notin DigitChars THEN NaN
  ELSE IF s[1] = "0" THEN ParseOctalDigits(s, 1, 0)
  ELSE ParseDigits(s, 1, 0)

\* parseInt(s, 10) on a string without sign or blanks: the value of the
\* longest prefix of decimal digits, NaN when that prefix is empty.
ParseInt(s) ==
  IF Len(s) = 0 \/ s[1] \notin DigitChars THEN NaN ELSE ParseDigits(s, 1, 0)

\* ---------------------------------------------------------------- registry
\* GRID.COLUMNS and GRID.CONTENT_ROWS.
COLUMNS == 40
CONTENT_ROWS == 23

\* Page numbers a three-digit entry can produce.
PageNumbers == 0..999

\* Numbers of items a feed is made to return.
FeedSizes == {3, 7}

DigitChar(d) == CHOOSE ch \in DigitChars : DigitVal(ch) = d

\* String(n) of a natural number, as a template literal inserts it.
RECURSIVE NumStr(_)
NumStr(n) ==
  IF n < 10 THEN <<DigitChar(n)>>
  ELSE NumStr(n \div 10) \o <<DigitChar(n % 10)>>

\* s.includes(sub)
Contains(s, sub) ==
  \E i \in 0..(Len(s) - Len(sub)) : SubSeq(s, i + 1, i + Len(sub)) = sub

\* lines.join(' ')
RECURSIVE Join(_)
Join(lines) ==
  IF lines = <<>> THEN <<>>
  ELSE IF Len(lines) = 1 THEN lines[1]
  ELSE lines[1] \o <<" ">> \o Join(Tail(lines))

Rule(ch) == [i \in 1..32 |-> ch]

Content100 ==
  << <<"W", "E", "L", "C", "O", "M", "E", " ", "T", "O", " ", "T", "E", "L", "E", "T", "E", "X", "T", " ", "Z", "E", "R", "O">>,
     <<>>,
     <<"A", " ", "S", "l", "o", "w", " ", "W", "e", "b", " ", "B", "r", "o", "w", "s", "e", "r">>,
     <<>>,
     <<"M", "a", "i", "n", " ", "S", "e", "c", "t", "i", "o", "n", "s", ":">>,
     <<>>,
     <<"2", "0", "0", " ", "-", " ", "W", "o", "r", "l", "d", " ", "N", "e", "w", "s", " ", "(", "B", "B", "C", ")">>,
     <<"3", "0", "0", " ", "-", " ", "T", "e", "c", "h", " ", "N", "e", "w", "s", " ", "(", "T", "h", "e", " ", "V", "e", "r", "g", "e", ")">>,
     <<"4", "0", "0", " ", "-", " ", "W", "e", "a", "t", "h", "e", "r">>,
     <<"5", "0", "0", " ", "-", " ", "S", "p", "o", "r", "t", "s", " ", "(", "E", "S", "P", "N", ")">>,
     <<>>,
     <<"6", "6", "6", " ", "-", " ", "?", "?", "?">>,
     <<>>,
     <<"E", "n", "t", "e", "r", " ", "a", " ", "3", "-", "d", "i", "g", "i", "t", " ", "p", "a", "g", "e", " ", "n", "u", "m", "b", "e", "r">>,
     <<"t", "o", " ", "n", "a", "v", "i", "g", "a", "t", "e", ".">> >>

Content200 ==
  << <<"B", "B", "C", " ", "W", "O", "R", "L", "D", " ", "N", "E", "W", "S">>,
     <<>>,
     <<"L", "O", "A", "D", "I", "N", "G", ".", ".", ".">>,
     <<>>,
     <<"P", "l", "e", "a", "s", "e", " ", "w", "a", "i", "t", " ", "w", "h", "i", "l", "e", " ", "w", "e", " ", "f", "e", "t", "c", "h">>,
     <<"t", "h", "e", " ", "l", "a", "t", "e", "s", "t", " ", "h", "e", "a", "d", "l", "i", "n", "e", "s", ".">> >>

Content300 ==
  << <<"T", "H", "E", " ", "V", "E", "R", "G", "E">>,
     <<>>,
     <<"L", "O", "A", "D", "I", "N", "G", ".", ".", ".">>,
     <<>>,
     <<"P", "l", "e", "a", "s", "e", " ", "w", "a", "i", "t", " ", "w", "h", "i", "l", "e", " ", "w", "e", " ", "f", "e", "t", "c", "h">>,
     <<"t", "h", "e", " ", "l", "a", "t", "e", "s", "t", " ", "t", "e", "c", "h", " ", "h", "e", "a", "d", "l", "i", "n", "e", "s", ".">> >>

Content400 ==
  << <<"W", "E", "A", "T", "H", "E", "R", " ", "F", "O", "R", "E", "C", "A", "S", "T">>,
     <<>>,
     <<"L", "O", "A", "D", "I", "N", "G", ".", ".", ".">>,
     <<>>,
     <<"F", "e", "t", "c", "h", "i", "n", "g", " ", "w", "e", "a", "t", "h", "e", "r", " ", "d", "a", "t", "a", ".", ".", ".">>,
     <<>>,
     <<"L", "o", "c", "a", "t", "i", "o", "n", " ", "a", "c", "c", "e", "s", "s", " ", "m", "a", "y", " ", "b", "e", " ", "r", "e", "q", "u", "i", "r", "e", "d", ".">> >>

Content500 ==
  << <<"E", "S", "P", "N", " ", "S", "P", "O", "R", "T", "S">>,
     <<>>,
     <<"L", "O", "A", "D", "I", "N", "G", ".", ".", ".">>,
     <<>>,
     <<"P", "l", "e", "a", "s", "e", " ", "w", "a", "i", "t", " ", "w", "h", "i", "l", "e", " ", "w", "e", " ", "f", "e", "t", "c", "h">>,
     <<"t", "h", "e", " ", "l", "a", "t", "e", "s", "t", " ", "s", "p", "o", "r", "t", "s", " ", "n", "e", "w", "s", ".">> >>

Content666 ==
  << <<"S", "Y", "S", "T", "E", "M", " ", "D", "I", "A", "G", "N", "O", "S", "T", "I", "C", "S">>,
     <<>>,
     <<"=", "=", "=", "=", "=", "=", "=", "=", "=", "=", "=", "=", "=", "=", "=", "=", "=", "=", "=", "=", "=", "=", "=", "=", "=", "=", "=", "=", "=", "=", "=", "=">>,
     <<>>,
     <<"S", "I", "G", "N", "A", "L", " ", "D", "E", "C", "A", "Y", ".", ".", ".", ".", ".", ".", ".", ".", ".", ".", ".", ".", ".", ".", ".", " ", "9", "9", "%">>,
     <<"M", "E", "M", "O", "R", "Y", " ", "C", "O", "R", "R", "U", "P", "T", "I", "O", "N", ".", ".", ".", ".", ".", ".", ".", ".", ".", ".", " ", "8", "7", "%">>,
     <<"T", "E", "M", "P", "O", "R", "A", "L", " ", "D", "R", "I", "F", "T", ".", ".", ".", ".", ".", ".", ".", ".", ".", ".", ".", ".", ".", " ", "A", "C", "T", "I", "V", "E">>,
     <<>>,
     <<"=", "=", "=", "=", "=", "=", "=", "=", "=", "=", "=", "=", "=", "=", "=", "=", "=", "=", "=", "=", "=", "=", "=", "=", "=", "=", "=", "=", "=", "=", "=", "=">>,
     <<>>,
     <<"S", "U", "B", "J", "E", "C", "T", ":", " ", "W", "A", "T", "C", "H", "I", "N", "G">>,
     <<"S", "T", "A", "T", "U", "S", ":", " ", "A", "W", "A", "R", "E">>,
     <<>>,
     <<"W", "A", "R", "N", "I", "N", "G", ":", " ", "A", "N", "O", "M", "A", "L", "Y", " ", "D", "E", "T", "E", "C", "T", "E", "D">>,
     <<>>,
     <<"D", "O", " ", "N", "O", "T", " ", "L", "O", "O", "K", " ", "B", "E", "H", "I", "N", "D", " ", "Y", "O", "U">>,
     <<>>,
     <<"=", "=", "=", "=", "=", "=", "=", "=", "=", "=", "=", "=", "=", "=", "=", "=", "=", "=", "=", "=", "=", "=", "=", "=", "=", "=", "=", "=", "=", "=", "=", "=">>,
     <<>>,
     <<"L", "A", "S", "T", " ", "T", "R", "A", "N", "S", "M", "I", "S", "S", "I", "O", "N", ":", " ", "1", "9", "8", "3", "-", "1", "0", "-", "3", "1">>,
     <<"O", "R", "I", "G", "I", "N", ":", " ", "U", "N", "K", "N", "O", "W", "N">>,
     <<>>,
     <<"T", "H", "E", "Y", " ", "N", "E", "V", "E", "R", " ", "L", "E", "F", "T">> >>

StaticPages == {100, 200, 300, 400, 500, 666}

pageRegistry ==
  [n \in StaticPages |->
     CASE n = 100 -> [pageNumber |-> 100,
                   title |-> <<"I", "n", "d", "e", "x">>,
                   content |-> Content100,
                   dynamicContent |-> "none"]
       [] n = 200 -> [pageNumber |-> 200,
                   title |-> <<"W", "o", "r", "l", "d", " ", "N", "e", "w", "s">>,
                   content |-> Content200,
                   dynamicContent |-> "fetchWorldNews"]
       [] n = 300 -> [pageNumber |-> 300,
                   title |-> <<"T", "e", "c", "h", " ", "N", "e", "w", "s">>,
                   content |-> Content300,
                   dynamicContent |-> "fetchTechNews"]
       [] n = 400 -> [pageNumber |-> 400,
                   title |-> <<"W", "e", "a", "t", "h", "e", "r">>,
                   content |-> Content400,
                   dynamicContent |-> "fetchWeather"]
       [] n = 500 -> [pageNumber |-> 500,
                   title |-> <<"S", "p", "o", "r", "t", "s">>,
                   content |-> Content500,
                   dynamicContent |-> "fetchSports"]
       [] n = 666 -> [pageNumber |-> 666,
                   title |-> <<"S", "y", "s", "t", "e", "m", " ", "D", "i", "a", "g", "n", "o", "s", "t", "i", "c", "s">>,
                   content |-> Content666,
                   dynamicContent |-> "none"]]

\* Variant: the error page with its heading in lower case.
CreateErrorPage_LowerCase(requestedPageNumber) ==
  [pageNumber |-> requestedPageNumber,
   title |-> <<"E", "r", "r", "o", "r">>,
   content |-> << <<"P", "a", "g", "e", " ", "n", "o", "t", " ", "f", "o", "u", "n", "d">>,
                  <<>>,
                  <<"P", "a", "g", "e", " ">> \o NumStr(requestedPageNumber) \o <<" ", "d", "o", "e", "s", " ", "n", "o", "t", " ", "e", "x", "i", "s", "t", ".">>,
                  <<>>,
                  <<"P", "l", "e", "a", "s", "e", " ", "t", "r", "y", " ", "a", "n", "o", "t", "h", "e", "r", " ", "p", "a", "g", "e", " ", "n", "u", "m", "b", "e", "r", ".">>,
                  <<>>,
                  <<"P", "r", "e", "s", "s", " ", "1", "0", "0", " ", "t", "o", " ", "r", "e", "t", "u", "r", "n", " ", "t", "o", " ", "t", "h", "e", " ", "i", "n", "d", "e", "x", ".">> >>,
   dynamicContent |-> "none"]

\* createErrorPage(requestedPageNumber)
CreateErrorPage(requestedPageNumber) ==
  [pageNumber |-> requestedPageNumber,
   title |-> <<"E", "r", "r", "o", "r">>,
   content |-> << <<"P", "A", "G", "E", " ", "N", "O", "T", " ", "F", "O", "U", "N", "D">>,
                  <<>>,
                  <<"P", "a", "g", "e", " ">> \o NumStr(requestedPageNumber) \o <<" ", "d", "o", "e", "s", " ", "n", "o", "t", " ", "e", "x", "i", "s", "t", ".">>,
                  <<>>,
                  <<"P", "l", "e", "a", "s", "e", " ", "t", "r", "y", " ", "a", "n", "o", "t", "h", "e", "r", " ", "p", "a", "g", "e", " ", "n", "u", "m", "b", "e", "r", ".">>,
                  <<>>,
                  <<"P", "r", "e", "s", "s", " ", "1", "0", "0", " ", "t", "o", " ", "r", "e", "t", "u", "r", "n", " ", "t", "o", " ", "t", "h", "e", " ", "i", "n", "d", "e", "x", ".">> >>,
   dynamicContent |-> "none"]

\* ------------------------------------------------------------ api: articles
LowerCase == <<"a", "b", "c", "d", "e", "f", "g", "h", "i", "j", "k", "l", "m", "n", "o", "p", "q", "r", "s", "t", "u", "v", "w", "x", "y", "z">>
UpperCase == <<"A", "B", "C", "D", "E", "F", "G", "H", "I", "J", "K", "L", "M", "N", "O", "P", "Q", "R", "S", "T", "U", "V", "W", "X", "Y", "Z">>

\* text.toUpperCase(), on letters a-z, digits and blanks.
ToUpperCase(text) ==
  [i \in 1..Len(text) |->
     IF \E k \in 1..26 : LowerCase[k] = text[i]
       THEN UpperCase[CHOOSE k \in 1..26 : LowerCase[k] = text[i]]
       ELSE text[i]]

\* text.split(' ')
RECURSIVE SplitFrom(_, _, _)
SplitFrom(s, i, cur) ==
  IF i > Len(s) THEN <<cur>>
  ELSE IF s[i] = " " THEN <<cur>> \o SplitFrom(s, i + 1, <<>>)
  ELSE SplitFrom(s, i + 1, Append(cur, s[i]))

\* The chunks a word longer than width is broken into.
RECURSIVE Chunks(_, _)
Chunks(word, width) ==
  IF Len(word) <= width THEN (IF word = <<>> THEN <<>> ELSE <<word>>)
  ELSE <<SubSeq(word, 1, width)>> \o Chunks(SubSeq(word, width + 1, Len(word)), width)

\* The loop of wordWrap over words[i..], with the lines pushed so far.
RECURSIVE WrapFrom(_, _, _, _, _)
WrapFrom(words, i, lines, currentLine, width) ==
  IF i > Len(words)
    THEN (IF currentLine # <<>> THEN Append(lines, currentLine) ELSE lines)
  ELSE LET word == words[i]
           testLine == IF currentLine # <<>> THEN currentLine \o <<" ">> \o word ELSE word
       IN IF Len(word) > width
            THEN WrapFrom(words, i + 1,
                          (IF currentLine # <<>> THEN Append(lines, currentLine) ELSE lines)
                            \o Chunks(word, width),
                          <<>>, width)
          ELSE IF Len(testLine) <= width
            THEN WrapFrom(words, i + 1, lines, testLine, width)
          ELSE WrapFrom(words, i + 1,
                        (IF currentLine # <<>> THEN Append(lines, currentLine) ELSE lines),
                        word, width)

\* wordWrap(text, width) on a text that needs no clean-up: no markup, no
\* entities, single blanks between words and none at either end.
WordWrap(text, width) ==
  IF text = <<>> THEN <<>> ELSE WrapFrom(SplitFrom(text, 1, <<>>), 1, <<>>, <<>>, width)

Categories == {"news", "tech", "sports"}

\* Item i of a feed: a short title and, except for the first item, a
\* description.
FeedItem(category, i) ==
  [title |-> (CASE category = "news" -> <<"N", "e", "w", "s", " ", "i", "t", "e", "m", " ">>
                [] category = "tech" -> <<"T", "e", "c", "h", " ", "i", "t", "e", "m", " ">>
                [] category = "sports" -> <<"S", "p", "o", "r", "t", "s", " ", "i", "t", "e", "m", " ">>) \o NumStr(i),
   description |-> IF i = 1 THEN <<>> ELSE <<"S", "t", "o", "r", "y", " ">> \o NumStr(i) \o <<" ", "o", "f", " ", "t", "h", "e", " ", "f", "e", "e", "d">>]

Feed(category, size) == [i \in 1..size |-> FeedItem(category, i)]

\* -------------------------------------------------------- list-page loaders
\* CACHE_TTL, in ms.
CACHE_TTL == 5 * 60 * 1000

\* Date.now() advances by a minute at a time, MaxClockSteps times at most.
ClockStep == CACHE_TTL \div 5
MaxClockSteps == 5
\* Date.now() when the module is loaded: lastFetched starts at 0, and any
\* starting time of at least CACHE_TTL makes an untouched entry stale.
StartTime == CACHE_TTL
\* Loader calls awaiting their feed at the same time.
MaxLoads == 2

\* The list pages and their loaders: the category, the title and the base
\* page number each loader passes on.
ListPages == {200, 300, 500}
CategoryOf(pageNumber) ==
  CASE pageNumber = 200 -> "news" [] pageNumber = 300 -> "tech" [] pageNumber = 500 -> "sports"
ListTitle(category) ==
  CASE category = "news" -> <<"B", "B", "C", " ", "W", "O", "R", "L", "D", " ", "N", "E", "W", "S">>
    [] category = "tech" -> <<"T", "H", "E", " ", "V", "E", "R", "G", "E">>
    [] category = "sports" -> <<"E", "S", "P", "N", " ", "S", "P", "O", "R", "T", "S">>
BasePage(category) ==
  CASE category = "news" -> 200 [] category = "tech" -> 300 [] category = "sports" -> 500

\* What the feed service answers: no answer at all, an HTTP error, a body
\* whose status is not 'ok', a body with its items, or a body with status
\* 'ok' and no items.
Responses ==
  { [kind |-> k, size |-> 0] : k \in {"networkError", "notOk", "badStatus", "noItems"} }
    \cup { [kind |-> "ok", size |-> n] : n \in FeedSizes }
FetchFailed(response) == response.kind \in {"networkError", "notOk", "badStatus"}


\* The cached form of a feed item.
ToCached(category, item) ==
  [title |-> item.title,
   description |-> IF category = "tech" /\ item.description = <<>>
                     THEN <<"N", "o", " ", "d", "e", "s", "c", "r", "i", "p", "t", "i", "o", "n", " ", "a", "v", "a", "i", "l", "a", "b", "l", "e", ".">>
                     ELSE item.description]

\* fetchRSSFeed(url): every failure is caught and answered with no items;
\* a body without items yields undefined.
FetchRSSFeed(category, response) ==
  CASE response.kind = "ok" -> [defined |-> TRUE, items |-> Feed(category, response.size)]
    [] response.kind = "noItems" -> [defined |-> FALSE, items |-> <<>>]
    [] OTHER -> [defined |-> TRUE, items |-> <<>>]

\* items.slice(0, 5).map(...): the cached form of the first five items.
Slice5(category, items) ==
  [i \in 1..(IF Len(items) < 5 THEN Len(items) ELSE 5) |-> ToCached(category, items[i])]

Spaces(n) == [i \in 1..n |-> " "]

\* formatHeadlineWithPage(index, title, basePageNum), index counted from 0.
FormatHeadlineWithPage(index, title, basePageNum) ==
  LET num == index + 1
      prefix == NumStr(num) \o <<".", " ">>
      pageNum == basePageNum + num
      suffix == <<" ", "P">> \o NumStr(pageNum)
      maxTitleLen == 31
      displayTitle == IF Len(title) > maxTitleLen
                        THEN SubSeq(title, 1, maxTitleLen - 2) \o <<".", ".">>
                        ELSE title
      usedLen == Len(prefix) + Len(displayTitle) + Len(suffix)
      paddingNeeded == COLUMNS - usedLen
      padding == IF paddingNeeded > 0 THEN Spaces(paddingNeeded) ELSE <<>>
  IN prefix \o displayTitle \o padding \o suffix

RECURSIVE HeadlineLines(_, _, _)
HeadlineLines(articles, i, basePageNum) ==
  IF i > Len(articles) THEN <<>>
  ELSE << FormatHeadlineWithPage(i - 1, articles[i].title, basePageNum), <<>> >>
         \o HeadlineLines(articles, i + 1, basePageNum)

\* formatNewsListPage(articles, title, basePageNum)
FormatNewsListPage(articles, title, basePageNum) ==
  << title, <<>>, Rule("="), <<>> >>
    \o HeadlineLines(articles, 1, basePageNum)
    \o << Rule("="), <<>>, <<"T", "y", "p", "e", " ", "p", "a", "g", "e", " ", "n", "u", "m", "b", "e", "r", " ", "f", "o", "r", " ", "f", "u", "l", "l", " ", "s", "t", "o", "r", "y">>, <<>>, <<"P", "r", "e", "s", "s", " ", "1", "0", "0", " ", "f", "o", "r", " ", "i", "n", "d", "e", "x">> >>

\* The lines a loader returns from its catch block.
FailureBlock(category) ==
  << ListTitle(category), <<>>, Rule("="), <<>>,
     (IF category = "sports" THEN <<"E", "R", "R", "O", "R", ":", " ", "U", "N", "A", "B", "L", "E", " ", "T", "O", " ", "F", "E", "T", "C", "H", " ", "S", "P", "O", "R", "T", "S">>
                             ELSE <<"E", "R", "R", "O", "R", ":", " ", "U", "N", "A", "B", "L", "E", " ", "T", "O", " ", "F", "E", "T", "C", "H", " ", "N", "E", "W", "S">>),
     <<>>, <<"S", "e", "r", "v", "i", "c", "e", " ", "t", "e", "m", "p", "o", "r", "a", "r", "i", "l", "y", " ", "u", "n", "a", "v", "a", "i", "l", "a", "b", "l", "e", ".">>, <<>>, <<"P", "r", "e", "s", "s", " ", "1", "0", "0", " ", "f", "o", "r", " ", "i", "n", "d", "e", "x">> >>

\* --------------------------------------------------------------- formatters
\* Texts handed to the formatters: Text(n, k) has n characters, each one
\* told by its position and by k.
MaxTextLen == 42
Alphabet == <<"a", "b", "c", "d", "e", "f", "g", "h", "i", "j", "k", "l", "m", "n", "o", "p", "q", "r", "s", "t", "u", "v", "w", "x", "y", "z">>
Text(n, k) == [i \in 1..n |-> Alphabet[((i + k) % 26) + 1]]
Texts == { Text(n, 0) : n \in 0..MaxTextLen }

\* text.substring(0, end)
Substring(text, end) == SubSeq(text, 1, IF end < Len(text) THEN end ELSE Len(text))

\* Variant: one column short.
TruncateText_OneShort(text) ==
  IF Len(text) < COLUMNS THEN text ELSE Substring(text, COLUMNS - 1)

\* truncateText(text)
TruncateText(text) ==
  IF Len(text) <= COLUMNS THEN text ELSE Substring(text, COLUMNS)

\* Lists of lines handed to the formatters: Lines(n) has n lines of
\* different lengths and contents, some longer than the grid is wide.
MaxLines == 25
LineLen(j) == (j * 7) % (MaxTextLen + 1)
Lines(n) == [j \in 1..n |-> Text(LineLen(j), j)]
LineLists == { Lines(n) : n \in 0..MaxLines }

\* lines.slice(0, end)
Slice(lines, end) == SubSeq(lines, 1, IF end < Len(lines) THEN end ELSE Len(lines))

\* Variant: the last rows are kept.
TruncateLines_Last(lines) ==
  IF Len(lines) <= CONTENT_ROWS THEN lines
  ELSE SubSeq(lines, Len(lines) - CONTENT_ROWS + 1, Len(lines))

\* truncateLines(lines)
TruncateLines(lines) ==
  IF Len(lines) <= CONTENT_ROWS THEN lines ELSE Slice(lines, CONTENT_ROWS)

\* ------------------------------------------------------------------ colors
\* TELETEXT_COLORS
PaletteNames ==
  { <<"b", "l", "a", "c", "k">>, <<"w", "h", "i", "t", "e">>, <<"r", "e", "d">>, <<"g", "r", "e", "e", "n">>, <<"b", "l", "u", "e">>, <<"y", "e", "l", "l", "o", "w">>, <<"c", "y", "a", "n">>, <<"m", "a", "g", "e", "n", "t", "a">> }
TELETEXT_COLORS ==
  [name \in PaletteNames |->
     CASE name = <<"b", "l", "a", "c", "k">> -> <<"#", "0", "0", "0", "0", "0", "0">>
       [] name = <<"w", "h", "i", "t", "e">> -> <<"#", "F", "F", "F", "F", "F", "F">>
       [] name = <<"r", "e", "d">> -> <<"#", "F", "F", "0", "0", "0", "0">>
       [] name = <<"g", "r", "e", "e", "n">> -> <<"#", "0", "0", "F", "F", "0", "0">>
       [] name = <<"b", "l", "u", "e">> -> <<"#", "0", "0", "0", "0", "F", "F">>
       [] name = <<"y", "e", "l", "l", "o", "w">> -> <<"#", "F", "F", "F", "F", "0", "0">>
       [] name = <<"c", "y", "a", "n">> -> <<"#", "0", "0", "F", "F", "F", "F">>
       [] name = <<"m", "a", "g", "e", "n", "t", "a">> -> <<"#", "F", "F", "0", "0", "F", "F">>]

\* Names every object inherits from Object.prototype.
ObjectPrototypeNames == { <<"t", "o", "S", "t", "r", "i", "n", "g">>, <<"c", "o", "n", "s", "t", "r", "u", "c", "t", "o", "r">>, <<"v", "a", "l", "u", "e", "O", "f">> }

\* Color names handed to the palette functions and to the color maps: the
\* palette, the empty string, other spellings, other colors, inherited
\* names and a hex value.
ColorInputs ==
  PaletteNames \cup ObjectPrototypeNames
    \cup { <<>>, <<"R", "E", "D">>, <<"R", "e", "d">>, <<"r", "e", "d", " ">>, <<"o", "r", "a", "n", "g", "e">>, <<"g", "r", "e", "y">>, <<"#", "F", "F", "0", "0", "0", "0">> }

\* Variant: the `in` operator, which also finds inherited names.
IsValidTeletextColor_In(color) ==
  color \in DOMAIN TELETEXT_COLORS \/ color \in ObjectPrototypeNames

\* isValidTeletextColor(color): Object.hasOwn(TELETEXT_COLORS, color)
IsValidTeletextColor(color) == color \in DOMAIN TELETEXT_COLORS

\* Variant: the name itself is handed on.
GetTeletextColorHex_PassThrough(color) == [kind |-> "string", value |-> color]

\* getTeletextColorHex(color): TELETEXT_COLORS[color], a property access
\* that yields the hex string of a palette name, a function for an
\* inherited name and undefined for everything else.
GetTeletextColorHex(color) ==
  IF color \in DOMAIN TELETEXT_COLORS
    THEN [kind |-> "string", value |-> TELETEXT_COLORS[color]]
    ELSE IF color \in ObjectPrototypeNames
           THEN [kind |-> "function", value |-> <<>>]
           ELSE [kind |-> "undefined", value |-> <<>>]

\* ------------------------------------------------------------- ContentArea
\* Color maps handed to ContentArea: none, an empty one, a row without
\* columns, one annotation at any of the rows and columns below with any of
\* the color names, and two annotations in one row. The rows and columns
\* lie inside and outside the rendered grid.
AnnRows == { 0, 1, 2, 7, 24, 25, 26 }
AnnCols == { 0, 6, 39, 40 }
NoColors == [defined |-> FALSE, map |-> <<>>]
OneAnnotation(r, c, color) ==
  [defined |-> TRUE, map |-> [row \in {r} |-> [col \in {c} |-> color]]]
ColorMaps ==
  { NoColors, [defined |-> TRUE, map |-> <<>>] }
    \cup { [defined |-> TRUE, map |-> [row \in {r} |-> <<>>]] : r \in AnnRows }
    \cup { OneAnnotation(r, c, color) : r \in AnnRows, c \in AnnCols, color \in ColorInputs }
    \cup { [defined |-> TRUE,
            map |-> [row \in {r} |-> [col \in {0, 39} |-> IF col = 0 THEN <<"r", "e", "d">> ELSE <<"g", "r", "e", "e", "n">>]]] :
             r \in AnnRows }

\* Variant: the rows are cut and the columns are not.
ProcessedLines_RowsOnly(lines) == TruncateLines(lines)

\* processedLines: truncateLines, then truncateText of every line kept.
ProcessedLines(lines) ==
  LET truncatedLines == TruncateLines(lines)
  IN [i \in 1..Len(truncatedLines) |-> TruncateText(truncatedLines[i])]

\* Variant: the header row is not counted.
GridRow_NoHeader(rowIndex) == rowIndex + 1

\* gridRow: the content rows 0-22 are the grid rows 2-24.
GridRow(rowIndex) == rowIndex + 2

\* The color names CSS knows, among those handed in.
CssColorNames == PaletteNames \cup { <<"o", "r", "a", "n", "g", "e">>, <<"g", "r", "e", "y">> }
CssHexDigits == DigitChars \cup { "A", "B", "C", "D", "E", "F", "a", "b", "c", "d", "e", "f" }
IsCssColor(s) ==
  \/ s \in CssColorNames
  \/ Len(s) = 7 /\ s[1] = "#" /\ \A i \in 2..7 : s[i] \in CssHexDigits

\* style={{ color: hexColor }}: the color the span ends up with, and the
\* empty string when the value is undefined or no CSS color.
NoColor == <<>>
StyleColor(hexColor) ==
  IF hexColor.kind = "string" /\ IsCssColor(hexColor.value) THEN hexColor.value ELSE NoColor

\* A rendered row: its text, whether it is made of one span per character
\* and, if so, the color of each span.
RenderLine(line, rowIndex, colors) ==
  LET gridRow == GridRow(rowIndex) IN
  IF ~colors.defined \/ gridRow \notin DOMAIN colors.map
    THEN [text |-> line, spans |-> FALSE, color |-> <<>>]
    ELSE LET colorMap == colors.map[gridRow]
             SpanColor(colIndex) ==
               IF colIndex \in DOMAIN colorMap /\ colorMap[colIndex] # <<>>
                 THEN StyleColor(GetTeletextColorHex(colorMap[colIndex]))
                 ELSE NoColor
         IN [text |-> line, spans |-> TRUE,
             color |-> [i \in 1..Len(line) |-> SpanColor(i - 1)]]

\* ContentArea({ content }): the rows it renders.
ContentArea(content) ==
  LET processedLines == ProcessedLines(content.lines)
  IN [i \in 1..Len(processedLines) |-> RenderLine(processedLines[i], i - 1, content.colors)]

\* ------------------------------------------------------------------ Header
\* Page names, page numbers and times of day handed to Header: names of
\* every length up to MaxNameLen, two more than fit the row.
MaxNameLen == 30
PageNames == { Text(n, 0) : n \in 0..MaxNameLen }
HeaderPages == { 0, 7, 42, 100, 999 }
HeaderTimes ==
  { [hours |-> h, minutes |-> m, seconds |-> s] : h \in {0, 9, 23}, m \in {0, 59}, s \in {5, 10} }

\* s.padStart(targetLength, '0')
PadStart(s, targetLength) ==
  IF Len(s) >= targetLength THEN s ELSE [i \in 1..(targetLength - Len(s)) |-> "0"] \o s

\* formatTime(date)
FormatTime(date) ==
  PadStart(NumStr(date.hours), 2) \o <<":">> \o PadStart(NumStr(date.minutes), 2)
    \o <<":">> \o PadStart(NumStr(date.seconds), 2)

\* Variant: no zero padding.
FormatPageNumber_NoPad(pageNumber) == <<"P">> \o NumStr(pageNumber)

\* formatPageNumber(pageNumber)
FormatPageNumber(pageNumber) == <<"P">> \o PadStart(NumStr(pageNumber), 3)

\* Math.floor(n / 2)
FloorHalf(n) == IF n >= 0 THEN n \div 2 ELSE 0 - ((1 - n) \div 2)

\* Variant: the odd space goes before the page number.
SpacesBeforeCenter_Ceil(totalSpaces) == FloorHalf(totalSpaces + 1)

\* spacesBeforeCenter
SpacesBeforeCenter(totalSpaces) == FloorHalf(totalSpaces)

\* Header({ pageName, pageNumber, currentTime }): the header text, or the
\* RangeError String.prototype.repeat throws for a negative count.
Header(pageName, pageNumber, currentTime) ==
  LET leftSection == pageName
      centerSection == FormatPageNumber(pageNumber)
      rightSection == FormatTime(currentTime)
      contentLength == Len(leftSection) + Len(centerSection) + Len(rightSection)
      totalSpaces == COLUMNS - contentLength
      spacesBeforeCenter == SpacesBeforeCenter(totalSpaces)
      spacesAfterCenter == totalSpaces - spacesBeforeCenter
  IN IF spacesBeforeCenter < 0 \/ spacesAfterCenter < 0
       THEN [thrown |-> TRUE, headerText |-> <<>>]
       ELSE [thrown |-> FALSE,
             headerText |-> leftSection \o Spaces(spacesBeforeCenter) \o centerSection
                              \o Spaces(spacesAfterCenter) \o rightSection]

\* -------------------------------------------------------------- PageBuffer
\* Variant: the digits without the dots.
FormatBuffer_NoDots(buffer) == buffer

\* formatBuffer(buffer)
FormatBuffer(buffer) ==
  IF Len(buffer) = 0 THEN <<>>
  ELSE IF Len(buffer) = 1 THEN buffer \o <<".", ".">>
  ELSE IF Len(buffer) = 2 THEN buffer \o <<".">>
  ELSE buffer

\* PageBuffer({ buffer, visible }): nothing, or the overlay and its text.
NoOverlay == [shown |-> FALSE, text |-> <<>>]
PageBuffer(buffer, visible) ==
  IF ~visible THEN NoOverlay
  ELSE IF FormatBuffer(buffer) = <<>> THEN NoOverlay
  ELSE [shown |-> TRUE, text |-> FormatBuffer(buffer)]

\* No formatter call is under study.
NoCall == [fn |-> "none"]

VARIABLES
  currentPage,   \* useNavigation: currentPage
  pageBuffer,    \* useNavigation: pageBuffer
  isNavigating,  \* useNavigation: isNavigating
  timers,        \* zero-delay setTimeout callbacks of the hook, in FIFO order
  screenState,      \* TeletextScreen: screenState
  displayedPage,    \* TeletextScreen: displayedPage
  isInitialized,    \* TeletextScreen: isInitialized
  dynamicContent,   \* TeletextScreen: dynamicContent
  isLoadingDynamic, \* TeletextScreen: isLoadingDynamic
  initTimer,        \* initialization effect: which of its two timers is pending
  transTimers,      \* transition effect: targets of the pending 100 ms timers
  effectTimer,      \* transition effect: the timer its cleanup will clear
  fetches,          \* loadDynamicContent calls awaiting their loader, per page
  midFrame,         \* the render committed by the last step before its effects ran
  bootLeft,         \* ms left on the pending timer of the initialization effect
  transLeft,        \* ms left on the pending timer of the transition effect
  waited,           \* ghost: ms since the last navigation event after boot
  now,              \* ghost: ms since the component was mounted
  articleCache,     \* api.ts: articleCache, the cached articles per category
  pageArg,          \* the page number getPage is called with
  lookup,           \* the page definition getPage returned, if it was called
  lastFetched,      \* api.ts: articleCache.lastFetched, per category
  dateNow,          \* the value Date.now() returns
  loads,            \* list-page loader calls awaiting fetchRSSFeed
  returned,         \* what the last list-page loader call resolved with
  call,             \* the formatter call under study and its arguments
  result,           \* what that call produced, once it was made
  lastOp,        \* ghost: the operation taken by the last step
  trace,         \* ghost: hook operations since the last quiescent state
  startPage      \* ghost: currentPage when the trace started

navVars == <<currentPage, pageBuffer, isNavigating, timers>>
screenVars == <<screenState, displayedPage, isInitialized, dynamicContent,
                isLoadingDynamic, initTimer, transTimers, effectTimer, fetches>>
timeVars == <<bootLeft, transLeft, waited, now>>
registryVars == <<articleCache, pageArg, lookup>>
loaderVars == <<lastFetched, dateNow, loads, returned>>
formatVars == <<call, result>>
libVars == <<registryVars, loaderVars, formatVars>>
ghostVars == <<lastOp, trace, startPage>>
vars == <<currentPage, pageBuffer, isNavigating, timers,
          screenState, displayedPage, isInitialized, dynamicContent,
          isLoadingDynamic, initTimer, transTimers, effectTimer, fetches,
          midFrame, bootLeft, transLeft, waited, now,
          articleCache, pageArg, lookup,
          lastFetched, dateNow, loads, returned, call, result,
          lastOp, trace, startPage>>

\* Variant: the index taken as zero-based.
GetCachedArticle_ZeroBased(category, index) ==
  LET articles == articleCache[category] IN
  IF index < 0 \/ index >= Len(articles) THEN <<>> ELSE <<articles[index + 1]>>

\* getCachedArticle(category, index); null is the empty sequence and an
\* article is returned as a sequence of one element.
GetCachedArticle(category, index) ==
  LET articles == articleCache[category] IN
  IF index < 1 \/ index > Len(articles) THEN <<>> ELSE <<articles[index]>>

\* formatArticleDetailPage(article, source, backPage)
FormatArticleDetailPage(article, source, backPage) ==
  LET head == <<source, <<>>, Rule("="), <<>>>>
                \o WordWrap(ToUpperCase(article.title), COLUMNS)
                \o << <<>>, Rule("-"), <<>> >>
      headerRows == Len(head)
      footerRows == 2
      maxDescLines == 23 - headerRows - footerRows - 1
      descLines == WordWrap(article.description, COLUMNS)
      kept == IF maxDescLines > 1 THEN maxDescLines ELSE 1
      body == IF article.description # <<>>
                THEN SubSeq(descLines, 1, IF kept < Len(descLines) THEN kept ELSE Len(descLines))
                       \o (IF Len(descLines) > maxDescLines THEN << <<".", ".", ".">> >> ELSE <<>>)
                ELSE << <<"N", "o", " ", "d", "e", "s", "c", "r", "i", "p", "t", "i", "o", "n", " ", "a", "v", "a", "i", "l", "a", "b", "l", "e", ".">> >>
      lines == head \o body
      padded == IF Len(lines) < 21
                  THEN lines \o [i \in 1..(21 - Len(lines)) |-> <<>>]
                  ELSE lines
  IN padded \o << <<>>, <<"P", "r", "e", "s", "s", " ">> \o NumStr(backPage) \o <<" ", "f", "o", "r", " ", "h", "e", "a", "d", "l", "i", "n", "e", "s">> >>

\* getNewsDetailPage(articleIndex)
GetNewsDetailPage(articleIndex) ==
  LET article == GetCachedArticle("news", articleIndex) IN
  IF article = <<>>
    THEN << <<"A", "R", "T", "I", "C", "L", "E", " ", "N", "O", "T", " ", "F", "O", "U", "N", "D">>,
            <<>>,
            <<"P", "l", "e", "a", "s", "e", " ", "v", "i", "s", "i", "t", " ", "P", "a", "g", "e", " ", "2", "0", "0", " ", "f", "i", "r", "s", "t">>,
            <<"t", "o", " ", "l", "o", "a", "d", " ", "t", "h", "e", " ", "n", "e", "w", "s", " ", "h", "e", "a", "d", "l", "i", "n", "e", "s", ".">>,
            <<>>,
            <<"P", "r", "e", "s", "s", " ", "2", "0", "0", " ", "f", "o", "r", " ", "h", "e", "a", "d", "l", "i", "n", "e", "s">> >>
    ELSE FormatArticleDetailPage(article[1], <<"B", "B", "C", " ", "N", "E", "W", "S">>, 200)

\* getTechDetailPage(articleIndex)
GetTechDetailPage(articleIndex) ==
  LET article == GetCachedArticle("tech", articleIndex) IN
  IF article = <<>>
    THEN << <<"A", "R", "T", "I", "C", "L", "E", " ", "N", "O", "T", " ", "F", "O", "U", "N", "D">>,
            <<>>,
            <<"P", "l", "e", "a", "s", "e", " ", "v", "i", "s", "i", "t", " ", "P", "a", "g", "e", " ", "3", "0", "0", " ", "f", "i", "r", "s", "t">>,
            <<"t", "o", " ", "l", "o", "a", "d", " ", "t", "h", "e", " ", "t", "e", "c", "h", " ", "h", "e", "a", "d", "l", "i", "n", "e", "s", ".">>,
            <<>>,
            <<"P", "r", "e", "s", "s", " ", "3", "0", "0", " ", "f", "o", "r", " ", "h", "e", "a", "d", "l", "i", "n", "e", "s">> >>
    ELSE FormatArticleDetailPage(article[1], <<"T", "H", "E", " ", "V", "E", "R", "G", "E">>, 300)

\* getSportsDetailPage(articleIndex)
GetSportsDetailPage(articleIndex) ==
  LET article == GetCachedArticle("sports", articleIndex) IN
  IF article = <<>>
    THEN << <<"A", "R", "T", "I", "C", "L", "E", " ", "N", "O", "T", " ", "F", "O", "U", "N", "D">>,
            <<>>,
            <<"P", "l", "e", "a", "s", "e", " ", "v", "i", "s", "i", "t", " ", "P", "a", "g", "e", " ", "5", "0", "0", " ", "f", "i", "r", "s", "t">>,
            <<"t", "o", " ", "l", "o", "a", "d", " ", "t", "h", "e", " ", "s", "p", "o", "r", "t", "s", " ", "h", "e", "a", "d", "l", "i", "n", "e", "s", ".">>,
            <<>>,
            <<"P", "r", "e", "s", "s", " ", "5", "0", "0", " ", "f", "o", "r", " ", "h", "e", "a", "d", "l", "i", "n", "e", "s">> >>
    ELSE FormatArticleDetailPage(article[1], <<"E", "S", "P", "N", " ", "S", "P", "O", "R", "T", "S">>, 500)

\* A call getContent(index) of the function passed to createDetailPage,
\* which is passed here by its name.
Call(getContent, index) ==
  CASE getContent = "getNewsDetailPage" -> GetNewsDetailPage(index)
    [] getContent = "getTechDetailPage" -> GetTechDetailPage(index)
    [] getContent = "getSportsDetailPage" -> GetSportsDetailPage(index)

\* createDetailPage(pageNumber, title, getContent)
CreateDetailPage(pageNumber, title, getContent) ==
  LET articleIndex == pageNumber % 10 IN
  [pageNumber |-> pageNumber,
   title |-> title,
   content |-> Call(getContent, articleIndex),
   dynamicContent |-> "none"]

\* isDetailPage(pageNumber)
IsDetailPage(pageNumber) ==
  \/ pageNumber >= 201 /\ pageNumber <= 205
  \/ pageNumber >= 301 /\ pageNumber <= 305
  \/ pageNumber >= 501 /\ pageNumber <= 505

\* Variant: createDetailPage handed the article index as the page number.
GetDetailPageDefinition_Index(pageNumber) ==
  IF pageNumber >= 201 /\ pageNumber <= 205
    THEN CreateDetailPage(pageNumber % 10, <<"N", "e", "w", "s", " ", "A", "r", "t", "i", "c", "l", "e">>, "getNewsDetailPage")
  ELSE IF pageNumber >= 301 /\ pageNumber <= 305
    THEN CreateDetailPage(pageNumber % 10, <<"T", "e", "c", "h", " ", "A", "r", "t", "i", "c", "l", "e">>, "getTechDetailPage")
  ELSE IF pageNumber >= 501 /\ pageNumber <= 505
    THEN CreateDetailPage(pageNumber % 10, <<"S", "p", "o", "r", "t", "s", " ", "A", "r", "t", "i", "c", "l", "e">>, "getSportsDetailPage")
  ELSE CreateErrorPage(pageNumber)

\* getDetailPageDefinition(pageNumber)
GetDetailPageDefinition(pageNumber) ==
  IF pageNumber >= 201 /\ pageNumber <= 205
    THEN CreateDetailPage(pageNumber, <<"N", "e", "w", "s", " ", "A", "r", "t", "i", "c", "l", "e">>, "getNewsDetailPage")
  ELSE IF pageNumber >= 301 /\ pageNumber <= 305
    THEN CreateDetailPage(pageNumber, <<"T", "e", "c", "h", " ", "A", "r", "t", "i", "c", "l", "e">>, "getTechDetailPage")
  ELSE IF pageNumber >= 501 /\ pageNumber <= 505
    THEN CreateDetailPage(pageNumber, <<"S", "p", "o", "r", "t", "s", " ", "A", "r", "t", "i", "c", "l", "e">>, "getSportsDetailPage")
  ELSE CreateErrorPage(pageNumber)

\* getPage(pageNumber)
GetPage(pageNumber) ==
  IF pageNumber \in DOMAIN pageRegistry THEN pageRegistry[pageNumber]
  ELSE IF IsDetailPage(pageNumber) THEN GetDetailPageDefinition(pageNumber)
  ELSE CreateErrorPage(pageNumber)

\* The overlay App renders for the buffer of the hook.
AppPageBuffer == PageBuffer(pageBuffer, Len(pageBuffer) > 0)

\* ----------------------------------------------------------------- ghost
Op(op, key, page) == [op |-> op, key |-> key, page |-> page]

ResolveTimer(page) == [kind |-> "resolve", page |-> page]
NavDoneTimer == [kind |-> "navDone", page |-> 0]

PendingResolves == { i \in 1..Len(timers) : timers[i].kind = "resolve" }

\* No entry is in progress: nothing typed and no resolution scheduled.
Quiescent == pageBuffer = <<>> /\ PendingResolves = {}

\* Room left in the trace for a caller's operation; pending resolutions
\* always keep a slot, so that a timer is never held back by the bound.
TraceRoom ==
  Quiescent \/ Len(trace) + Cardinality(PendingResolves) < MaxTrace

\* An operation that the hook acts on is added to the trace; the trace
\* restarts when the operation begins in a quiescent state.
Record(o) ==
  /\ lastOp' = o
  /\ trace' = IF Quiescent THEN <<o>> ELSE Append(trace, o)
  /\ startPage' = IF Quiescent THEN currentPage ELSE startPage

\* A call that addDigit rejects at its first test is noted as the last
\* operation only.
Note(o) ==
  /\ lastOp' = o
  /\ UNCHANGED <<trace, startPage>>

\* ----------------------------------------------------------- TeletextScreen
NoTimer == -2

\* Values of the dynamicContent state: null, the lines a page's loader
\* returned, or the fixed block set by the catch branch.
Null == [kind |-> "null", page |-> 0]
Loaded(pageNumber) == [kind |-> "loaded", page |-> pageNumber]
ErrorBlock == [kind |-> "error", page |-> 0]

\* Variant: the content selection without the loading indicator.
ContentShown_NoIndicator ==
  IF dynamicContent # Null THEN dynamicContent
  ELSE [kind |-> "static", page |-> displayedPage]

\* The lines handed to TeletextPage: the loading indicator built from the
\* displayed page's first lines, else the dynamic content, else the
\* displayed page's own content.
ContentShown ==
  IF isLoadingDynamic THEN [kind |-> "fetching", page |-> displayedPage]
  ELSE IF dynamicContent # Null THEN dynamicContent
  ELSE [kind |-> "static", page |-> displayedPage]

\* What a committed render shows: the screen state and the page number
\* handed to TeletextPage.
Frame(st, dp) == [screenState |-> st, displayedPage |-> dp]

\* A step without a render of the screen leaves the frame as it is.
ScreenIdle ==
  /\ UNCHANGED screenVars
  /\ UNCHANGED timeVars
  /\ UNCHANGED libVars
  /\ midFrame' = Frame(screenState, displayedPage)

\* Variant: the effect starts its timer without setScreenState('loading').
TransitionEffect_NoBlank(cp, dp, ini, st, dyn, pend) ==
  /\ midFrame' = Frame(st, dp)
  /\ IF <<cp, dp, ini>> = <<currentPage, displayedPage, isInitialized>>
       THEN /\ screenState' = st
            /\ dynamicContent' = dyn
            /\ transTimers' = pend
            /\ UNCHANGED <<effectTimer, transLeft>>
       ELSE LET cleaned == pend \ {effectTimer} IN
            IF ini /\ cp # dp
              THEN /\ screenState' = st
                   /\ dynamicContent' = Null
                   /\ transTimers' = cleaned \cup {cp}
                   /\ effectTimer' = cp
                   /\ transLeft' = TransitionDelay
              ELSE /\ screenState' = st
                   /\ dynamicContent' = dyn
                   /\ transTimers' = cleaned
                   /\ effectTimer' = NoTimer
                   /\ transLeft' = 0

\* The page transition effect, run after a render in which the hook state
\* became cp, dp, ini, with st, dyn and pend the values set by the step so
\* far. That render is committed first (midFrame); React then runs the
\* effect (after the cleanup of its previous run) only when one of its
\* dependencies changed.
TransitionEffect(cp, dp, ini, st, dyn, pend) ==
  /\ midFrame' = Frame(st, dp)
  /\ IF <<cp, dp, ini>> = <<currentPage, displayedPage, isInitialized>>
       THEN /\ screenState' = st
            /\ dynamicContent' = dyn
            /\ transTimers' = pend
            /\ UNCHANGED <<effectTimer, transLeft>>
       ELSE LET cleaned == pend \ {effectTimer} IN
            IF ini /\ cp # dp
              THEN /\ screenState' = "loading"
                   /\ dynamicContent' = Null
                   /\ transTimers' = cleaned \cup {cp}
                   /\ effectTimer' = cp
                   /\ transLeft' = TransitionDelay
              ELSE /\ screenState' = st
                   /\ dynamicContent' = dyn
                   /\ transTimers' = cleaned
                   /\ effectTimer' = NoTimer
                   /\ transLeft' = 0

\* Variant: the effect without its currentPage !== displayedPage test and
\* without its dependency list, so that it runs after every navigation.
PageChanged_Always(cp) ==
  /\ midFrame' = Frame(screenState, displayedPage)
  /\ IF isInitialized
       THEN /\ screenState' = "loading"
            /\ dynamicContent' = Null
            /\ transTimers' = {cp}
            /\ effectTimer' = cp
            /\ transLeft' = TransitionDelay
       ELSE UNCHANGED <<screenState, dynamicContent, transTimers, effectTimer, transLeft>>
  /\ UNCHANGED <<displayedPage, isInitialized, isLoadingDynamic, initTimer, fetches>>
  /\ waited' = 0
  /\ UNCHANGED <<bootLeft, now, libVars>>

\* The render that follows a change of currentPage to cp.
PageChanged(cp) ==
  /\ TransitionEffect(cp, displayedPage, isInitialized, screenState,
                      dynamicContent, transTimers)
  /\ UNCHANGED <<displayedPage, isInitialized, isLoadingDynamic, initTimer, fetches>>
  /\ waited' = 0
  /\ UNCHANGED <<bootLeft, now, libVars>>

\* ------------------------------------------------------------ useNavigation
\* The state after the first render of App.
InitState ==
  /\ currentPage = InitialPage
  /\ pageBuffer = <<>>
  /\ isNavigating = FALSE
  /\ timers = <<>>
  /\ screenState = "static"
  /\ displayedPage = 100
  /\ isInitialized = FALSE
  /\ dynamicContent = Null
  /\ isLoadingDynamic = FALSE
  /\ initTimer = "outer"
  /\ transTimers = {}
  /\ effectTimer = NoTimer
  /\ fetches = [p \in DynamicPages |-> 0]
  /\ midFrame = Frame("static", 100)
  /\ bootLeft = BootDelay
  /\ transLeft = 0
  /\ waited = 0
  /\ now = 0
  /\ lastOp = Op("init", <<>>, 0)
  /\ trace = <<>>
  /\ startPage = InitialPage
  /\ articleCache = [category \in Categories |-> <<>>]
  /\ lookup = <<>>
  /\ lastFetched = [category \in Categories |-> 0]
  /\ dateNow = StartTime
  /\ loads = {}
  /\ returned = <<>>
  /\ result = <<>>

Init == InitState /\ pageArg = InitialPage /\ call = NoCall

\* Variant: the length test off by one.
BufferFull_OffByOne(prevBuffer) == Len(prevBuffer) > 3

\* "Only allow up to 3 digits"
BufferFull(prevBuffer) == Len(prevBuffer) >= 3

\* Variant: a digit offered to a full buffer starts the next entry.
WhenFull_Restart(prevBuffer, digit) == digit

\* "return prevBuffer": the updater's result when the buffer is full.
WhenFull(prevBuffer, digit) == prevBuffer

\* Variant: digit + prevBuffer.
NewBuffer_Prepend(prevBuffer, digit) == digit \o prevBuffer

\* prevBuffer + digit
NewBuffer(prevBuffer, digit) == prevBuffer \o digit

\* addDigit(digit)
AddDigit(digit) ==
  IF ~IsDigitKey(digit)
    THEN /\ UNCHANGED navVars
         /\ ScreenIdle
         /\ Note(Op("addDigit", digit, 0))
    ELSE /\ TraceRoom
         /\ ScreenIdle
         /\ IF BufferFull(pageBuffer)
              THEN /\ pageBuffer' = WhenFull(pageBuffer, digit)
                   /\ UNCHANGED <<currentPage, isNavigating, timers>>
              ELSE LET newBuffer == NewBuffer(pageBuffer, digit) IN
                   /\ pageBuffer' = newBuffer
                   /\ IF Len(newBuffer) = 3
                        THEN /\ Len(timers) < MaxTimers
                             /\ timers' = Append(timers, ResolveTimer(ParseInt(newBuffer)))
                        ELSE UNCHANGED timers
                   /\ UNCHANGED <<currentPage, isNavigating>>
         /\ Record(Op("addDigit", digit, 0))

\* Variant: clearBuffer also cancels the scheduled resolutions.
ClearBuffer_CancelsResolve ==
  /\ TraceRoom
  /\ pageBuffer' = <<>>
  /\ timers' = SelectSeq(timers, LAMBDA t : t.kind # "resolve")
  /\ UNCHANGED <<currentPage, isNavigating>>
  /\ ScreenIdle
  /\ Record(Op("clearBuffer", <<>>, 0))

\* Variant: clearBuffer as a backspace.
ClearBuffer_Backspace ==
  /\ TraceRoom
  /\ pageBuffer' = SubSeq(pageBuffer, 1, Len(pageBuffer) - 1)
  /\ UNCHANGED <<currentPage, isNavigating, timers>>
  /\ ScreenIdle
  /\ Record(Op("clearBuffer", <<>>, 0))

\* clearBuffer()
ClearBuffer ==
  /\ TraceRoom
  /\ pageBuffer' = <<>>
  /\ UNCHANGED <<currentPage, isNavigating, timers>>
  /\ ScreenIdle
  /\ Record(Op("clearBuffer", <<>>, 0))

\* Variant: navigateToPage without setPageBuffer('').
NavigateToPage_KeepBuffer(pageNumber) ==
  /\ TraceRoom
  /\ Len(timers) < MaxTimers
  /\ isNavigating' = TRUE
  /\ currentPage' = pageNumber
  /\ UNCHANGED pageBuffer
  /\ timers' = Append(timers, NavDoneTimer)
  /\ PageChanged(pageNumber)
  /\ Record(Op("navigateToPage", <<>>, pageNumber))

\* navigateToPage(pageNumber)
NavigateToPage(pageNumber) ==
  /\ TraceRoom
  /\ Len(timers) < MaxTimers
  /\ isNavigating' = TRUE
  /\ currentPage' = pageNumber
  /\ pageBuffer' = <<>>
  /\ timers' = Append(timers, NavDoneTimer)
  /\ PageChanged(pageNumber)
  /\ Record(Op("navigateToPage", <<>>, pageNumber))

\* Variant: the scheduled callback without setPageBuffer('').
Resolve_KeepBuffer ==
  /\ timers # <<>>
  /\ Head(timers).kind = "resolve"
  /\ isNavigating' = TRUE
  /\ currentPage' = Head(timers).page
  /\ UNCHANGED pageBuffer
  /\ timers' = Append(Tail(timers), NavDoneTimer)
  /\ PageChanged(Head(timers).page)
  /\ Record(Op("resolve", <<>>, Head(timers).page))

\* The callback scheduled by addDigit when the buffer reaches 3 digits.
Resolve ==
  /\ timers # <<>>
  /\ Head(timers).kind = "resolve"
  /\ isNavigating' = TRUE
  /\ currentPage' = Head(timers).page
  /\ pageBuffer' = <<>>
  /\ timers' = Append(Tail(timers), NavDoneTimer)
  /\ PageChanged(Head(timers).page)
  /\ Record(Op("resolve", <<>>, Head(timers).page))

\* The callback that resets the navigation flag.
NavDone ==
  /\ timers # <<>>
  /\ Head(timers).kind = "navDone"
  /\ isNavigating' = FALSE
  /\ timers' = Tail(timers)
  /\ lastOp' = Op("navDone", <<>>, 0)
  /\ UNCHANGED <<currentPage, pageBuffer, trace, startPage>>
  /\ ScreenIdle

\* ----------------------------------------------------------- TeletextScreen
\* Variant: the inner timer created without its delay.
BootTimer_NoInnerDelay ==
  /\ initTimer = "outer"
  /\ initTimer' = "inner"
  /\ screenState' = "loading"
  /\ bootLeft' = 0
  /\ midFrame' = Frame("loading", displayedPage)
  /\ lastOp' = Op("bootTimer", <<>>, 0)
  /\ UNCHANGED <<displayedPage, isInitialized, dynamicContent, isLoadingDynamic,
                 transTimers, effectTimer, fetches, transLeft, waited, now>>
  /\ UNCHANGED <<navVars, trace, startPage, libVars>>

\* Initialization effect, outer timer (1000 ms): its callback blanks the
\* screen and creates the inner timer (100 ms).
BootTimer ==
  /\ initTimer = "outer"
  /\ initTimer' = "inner"
  /\ screenState' = "loading"
  /\ bootLeft' = LoadingDelay
  /\ midFrame' = Frame("loading", displayedPage)
  /\ lastOp' = Op("bootTimer", <<>>, 0)
  /\ UNCHANGED <<displayedPage, isInitialized, dynamicContent, isLoadingDynamic,
                 transTimers, effectTimer, fetches, transLeft, waited, now>>
  /\ UNCHANGED <<navVars, trace, startPage, libVars>>

\* Variant: the inner timer's callback shows the current page at once.
InitDone_CurrentPage ==
  /\ initTimer = "inner"
  /\ initTimer' = "none"
  /\ displayedPage' = currentPage
  /\ isInitialized' = TRUE
  /\ TransitionEffect(currentPage, currentPage, TRUE, "display", dynamicContent, transTimers)
  /\ bootLeft' = 0
  /\ waited' = 0
  /\ UNCHANGED now
  /\ lastOp' = Op("initDone", <<>>, currentPage)
  /\ UNCHANGED <<isLoadingDynamic, fetches>>
  /\ UNCHANGED <<navVars, trace, startPage, libVars>>

\* Initialization effect, inner timer (100 ms), and the render after it.
InitDone ==
  /\ initTimer = "inner"
  /\ initTimer' = "none"
  /\ displayedPage' = 100
  /\ isInitialized' = TRUE
  /\ TransitionEffect(currentPage, 100, TRUE, "display", dynamicContent, transTimers)
  /\ bootLeft' = 0
  /\ waited' = 0
  /\ UNCHANGED now
  /\ lastOp' = Op("initDone", <<>>, 100)
  /\ UNCHANGED <<isLoadingDynamic, fetches>>
  /\ UNCHANGED <<navVars, trace, startPage, libVars>>

\* The 100 ms timer of the page transition effect, created for target; its
\* callback ends with loadDynamicContent(target), which runs up to its
\* await in the same step.
TransitionTimer(target) ==
  /\ target \in transTimers
  /\ displayedPage' = target
  /\ IF HasDynamic(target)
       THEN /\ fetches[target] < MaxFetches
            /\ isLoadingDynamic' = TRUE
            /\ fetches' = [fetches EXCEPT ![target] = @ + 1]
       ELSE UNCHANGED <<isLoadingDynamic, fetches>>
  /\ TransitionEffect(currentPage, target, isInitialized, "display", Null,
                      transTimers \ {target})
  /\ lastOp' = Op("transitionTimer", <<>>, target)
  /\ UNCHANGED <<isInitialized, initTimer, bootLeft, waited, now>>
  /\ UNCHANGED <<navVars, trace, startPage, libVars>>

\* Variant: loadDynamicContent without its finally block.
LoadSettles_NoFinally(pageNumber, ok) ==
  /\ fetches[pageNumber] > 0
  /\ fetches' = [fetches EXCEPT ![pageNumber] = @ - 1]
  /\ dynamicContent' = IF ok THEN Loaded(pageNumber) ELSE ErrorBlock
  /\ isLoadingDynamic' = IF ok THEN FALSE ELSE isLoadingDynamic
  /\ lastOp' = Op(IF ok THEN "loadResolved" ELSE "loadRejected", <<>>, pageNumber)
  /\ midFrame' = Frame(screenState, displayedPage)
  /\ UNCHANGED <<screenState, displayedPage, isInitialized, initTimer,
                 transTimers, effectTimer>>
  /\ UNCHANGED timeVars
  /\ UNCHANGED <<navVars, trace, startPage, libVars>>

\* loadDynamicContent(pageNumber) after its await: the loader resolved
\* (ok) or rejected, then the finally block.
LoadSettles(pageNumber, ok) ==
  /\ fetches[pageNumber] > 0
  /\ fetches' = [fetches EXCEPT ![pageNumber] = @ - 1]
  /\ dynamicContent' = IF ok THEN Loaded(pageNumber) ELSE ErrorBlock
  /\ isLoadingDynamic' = FALSE
  /\ lastOp' = Op(IF ok THEN "loadResolved" ELSE "loadRejected", <<>>, pageNumber)
  /\ midFrame' = Frame(screenState, displayedPage)
  /\ UNCHANGED <<screenState, displayedPage, isInitialized, initTimer,
                 transTimers, effectTimer>>
  /\ UNCHANGED timeVars
  /\ UNCHANGED <<navVars, trace, startPage, libVars>>

\* Variant: the handler without its filter.
KeyDown_NoFilter(key) == AddDigit(key)

\* KeyboardNavigationHandler: a keydown event with event.key = key.
KeyDown(key) ==
  IF IsDigitKey(key)
    THEN AddDigit(key)
    ELSE /\ lastOp' = Op("keydown", key, 0)
         /\ ScreenIdle
         /\ UNCHANGED <<navVars, trace, startPage, libVars>>

DoAddDigit == \E digit \in Keys : AddDigit(digit)
DoNavigateToPage == \E n \in NavTargets : NavigateToPage(n)

Next ==
  \/ DoAddDigit
  \/ ClearBuffer
  \/ DoNavigateToPage
  \/ Resolve
  \/ NavDone

\* The hook on its own, driven through its three actions.
Spec == Init /\ [][Next]_vars

DoKeyDown == \E key \in Keys : KeyDown(key)
DoTransitionTimer == \E target \in transTimers : TransitionTimer(target)
DoLoadSettles == \E p \in DynamicPages, ok \in BOOLEAN : LoadSettles(p, ok)

\* Events dispatched on the window: key presses with any of the keys
\* above or a named key, alone or with a modifier held, and pointer events.
EventKeys == Keys \cup { <<"E", "n", "t", "e", "r">> }
Modifiers == { "none", "shift", "ctrl", "alt" }
PointerEvents == { "click", "mousedown", "touchstart" }
WindowEvents ==
  { [type |-> "keydown", key |-> key, modifier |-> m] : key \in EventKeys, m \in Modifiers }
    \cup { [type |-> t, key |-> <<>>, modifier |-> "none"] : t \in PointerEvents }

\* An event on the window: the only listener is handleKeyDown, for
\* 'keydown', and it reads event.key alone.
WindowEvent(event) ==
  IF event.type = "keydown"
    THEN KeyDown(event.key)
    ELSE /\ lastOp' = Op(event.type, <<>>, 0)
         /\ ScreenIdle
         /\ UNCHANGED <<navVars, trace, startPage, libVars>>

DoWindowEvent == \E event \in WindowEvents : WindowEvent(event)

KeysNext ==
  \/ DoWindowEvent
  \/ ClearBuffer
  \/ DoNavigateToPage
  \/ Resolve
  \/ NavDone

\* The hook behind the keyboard handler: addDigit is called by the
\* handler alone.
KeysSpec == Init /\ [][KeysNext]_vars

\* App: the hook is driven by key presses only and feeds the screen.
AppNext ==
  \/ DoKeyDown
  \/ Resolve
  \/ NavDone
  \/ BootTimer
  \/ InitDone
  \/ DoTransitionTimer
  \/ DoLoadSettles

AppSpec == Init /\ [][AppNext]_vars

\* TeletextScreen rendered again by its parent with another currentPage.
SetCurrentPage(cp) ==
  /\ cp # currentPage
  /\ currentPage' = cp
  /\ PageChanged(cp)
  /\ lastOp' = Op("setCurrentPage", <<>>, cp)
  /\ UNCHANGED <<pageBuffer, isNavigating, timers, trace, startPage>>

\* A navigation received after boot is waiting for its page: the screen is
\* not displaying the current page.
Awaiting == isInitialized /\ ~(screenState = "display" /\ displayedPage = currentPage)

\* TickMs pass. A timer fires no later than when it is due, so time stops
\* at a due timer until its callback has run.
Tick ==
  /\ initTimer # "none" => bootLeft > 0
  /\ transTimers # {} => transLeft > 0
  /\ bootLeft' = IF initTimer # "none" THEN bootLeft - TickMs ELSE bootLeft
  /\ transLeft' = IF transTimers # {} THEN transLeft - TickMs ELSE transLeft
  /\ waited' = IF ~Awaiting THEN 0
               ELSE IF waited > TransitionBudget THEN waited
               ELSE waited + TickMs
  /\ now' = IF now >= ClockCap THEN now ELSE now + TickMs
  /\ midFrame' = Frame(screenState, displayedPage)
  /\ lastOp' = Op("tick", <<>>, 0)
  /\ UNCHANGED <<navVars, screenVars, trace, startPage, libVars>>

\* The timer callbacks, run when their delay has passed.
BootTimerDue == bootLeft = 0 /\ BootTimer
InitDoneDue == bootLeft = 0 /\ InitDone
TransitionTimerDue == transLeft = 0 /\ DoTransitionTimer

DoSetCurrentPage == \E cp \in ScreenPages : SetCurrentPage(cp)

\* TeletextScreen on its own, driven through its currentPage prop, with
\* the passing of time.
ScreenNext ==
  \/ DoSetCurrentPage
  \/ BootTimerDue
  \/ InitDoneDue
  \/ TransitionTimerDue
  \/ DoLoadSettles
  \/ Tick

ScreenSpec == Init /\ [][ScreenNext]_vars

\* TeletextScreen with the guarantees of the runtime: time passes, a timer
\* that is due fires, and a loader call settles.
ScreenFairSpec ==
  /\ Init
  /\ [][ScreenNext]_vars
  /\ WF_vars(Tick)
  /\ WF_vars(BootTimerDue)
  /\ WF_vars(InitDoneDue)
  /\ WF_vars(TransitionTimerDue)
  /\ WF_vars(DoLoadSettles)

\* ---------------------------------------------------------------- registry
\* A list-page loader stores the first five items of the feed it fetched.
CacheArticles(category, size) ==
  /\ lookup = <<>>
  /\ articleCache' = [articleCache EXCEPT ![category] = Slice5(category, Feed(category, size))]
  /\ lastFetched' = [lastFetched EXCEPT ![category] = dateNow]
  /\ lastOp' = Op("cacheArticles", <<>>, 0)
  /\ UNCHANGED <<pageArg, lookup>>
  /\ UNCHANGED <<navVars, screenVars, timeVars, midFrame, trace, startPage>>
  /\ UNCHANGED <<dateNow, loads, returned, formatVars>>

\* A call of getPage.
LookupPage ==
  /\ lookup = <<>>
  /\ lookup' = <<GetPage(pageArg)>>
  /\ lastOp' = Op("getPage", <<>>, pageArg)
  /\ UNCHANGED <<pageArg, articleCache>>
  /\ UNCHANGED <<navVars, screenVars, timeVars, midFrame, trace, startPage>>
  /\ UNCHANGED <<loaderVars, formatVars>>

DoCacheArticles == \E category \in Categories, size \in FeedSizes : CacheArticles(category, size)

RegistryNext ==
  \/ DoCacheArticles
  \/ LookupPage

\* The page registry on its own: getPage called with any page number,
\* before or after list pages were fetched.
RegistryInit == InitState /\ pageArg \in PageNumbers /\ call = NoCall
RegistrySpec == RegistryInit /\ [][RegistryNext]_vars

\* -------------------------------------------------------- list-page loaders
\* Variant: an entry exactly CACHE_TTL old still counts as fresh.
Fresh_Inclusive(category) ==
  /\ Len(articleCache[category]) > 0
  /\ dateNow - lastFetched[category] <= CACHE_TTL

\* The cache check of a loader: articles are cached and younger than CACHE_TTL.
Fresh(category) ==
  /\ Len(articleCache[category]) > 0
  /\ dateNow - lastFetched[category] < CACHE_TTL

\* A call of the loader of a list page, up to its await: the cached list is
\* returned while it is fresh, otherwise the feed is requested.
CallLoader(category) ==
  /\ category = CategoryOf(pageArg)
  /\ IF Fresh(category)
       THEN /\ returned' = <<[category |-> category,
                             lines |-> FormatNewsListPage(articleCache[category],
                                                         ListTitle(category), BasePage(category))]>>
            /\ lastOp' = Op("loaderCached", <<>>, BasePage(category))
            /\ UNCHANGED loads
       ELSE /\ Cardinality(loads) < MaxLoads
            /\ loads' = loads \cup {[category |-> category, now |-> dateNow]}
            /\ lastOp' = Op("loaderFetches", <<>>, BasePage(category))
            /\ UNCHANGED returned
  /\ UNCHANGED <<articleCache, lastFetched, dateNow, pageArg, lookup, formatVars>>
  /\ UNCHANGED <<navVars, screenVars, timeVars, midFrame, trace, startPage>>

\* The rest of that call once fetchRSSFeed has settled: the try block, and
\* the catch block when the try block throws.
FeedSettles(load, response) ==
  /\ load \in loads
  /\ loads' = loads \ {load}
  /\ LET category == load.category
         fetched == FetchRSSFeed(category, response)
         cached == Slice5(category, fetched.items)
     IN IF fetched.defined
          THEN /\ articleCache' = [articleCache EXCEPT ![category] = cached]
               /\ lastFetched' = [lastFetched EXCEPT ![category] = load.now]
               /\ returned' = <<[category |-> category,
                                lines |-> FormatNewsListPage(cached, ListTitle(category),
                                                            BasePage(category))]>>
          ELSE /\ returned' = <<[category |-> category, lines |-> FailureBlock(category)]>>
               /\ UNCHANGED <<articleCache, lastFetched>>
  /\ lastOp' = Op("loaderSettles", <<response.kind>>, BasePage(load.category))
  /\ UNCHANGED <<dateNow, pageArg, lookup, formatVars>>
  /\ UNCHANGED <<navVars, screenVars, timeVars, midFrame, trace, startPage>>

\* Time passes.
AdvanceClock ==
  /\ dateNow < StartTime + MaxClockSteps * ClockStep
  /\ dateNow' = dateNow + ClockStep
  /\ lastOp' = Op("clock", <<>>, 0)
  /\ UNCHANGED <<registryVars, lastFetched, loads, returned, formatVars>>
  /\ UNCHANGED <<navVars, screenVars, timeVars, midFrame, trace, startPage>>

DoCallLoader == \E category \in Categories : CallLoader(category)
DoFeedSettles == \E load \in loads, response \in Responses : FeedSettles(load, response)

LoaderNext ==
  \/ DoCallLoader
  \/ DoFeedSettles
  \/ AdvanceClock

\* The loader of one list page, called at any times, its feed answering in
\* any way.
LoaderInit == InitState /\ pageArg \in ListPages /\ call = NoCall
LoaderSpec == LoaderInit /\ [][LoaderNext]_vars

\* --------------------------------------------------------------- formatters
\* The call under study is made and its result kept.
Returns(value) ==
  /\ result = <<>>
  /\ result' = <<value>>
  /\ lastOp' = Op(call.fn, <<>>, 0)
  /\ UNCHANGED <<call, registryVars, loaderVars>>
  /\ UNCHANGED <<navVars, screenVars, timeVars, midFrame, trace, startPage>>

CallTruncateText ==
  /\ call.fn = "truncateText"
  /\ Returns(TruncateText(call.input))

CallTruncateLines ==
  /\ call.fn = "truncateLines"
  /\ Returns(TruncateLines(call.input))

RenderContentArea ==
  /\ call.fn = "ContentArea"
  /\ Returns(ContentArea(call.input))

RenderHeader ==
  /\ call.fn = "Header"
  /\ Returns(Header(call.input.pageName, call.input.pageNumber, call.input.currentTime))

CallIsValidTeletextColor ==
  /\ call.fn = "isValidTeletextColor"
  /\ Returns(IsValidTeletextColor(call.input))

CallGetTeletextColorHex ==
  /\ call.fn = "getTeletextColorHex"
  /\ Returns(GetTeletextColorHex(call.input))

FormatCalls ==
  { [fn |-> "truncateText", input |-> text] : text \in Texts }
    \cup { [fn |-> "truncateLines", input |-> lines] : lines \in LineLists }
    \cup { [fn |-> "ContentArea", input |-> [lines |-> lines, colors |-> colors]] :
             lines \in LineLists, colors \in ColorMaps }
    \cup { [fn |-> "Header",
            input |-> [pageName |-> name, pageNumber |-> n, currentTime |-> time]] :
             name \in PageNames, n \in HeaderPages, time \in HeaderTimes }
    \cup { [fn |-> "isValidTeletextColor", input |-> color] : color \in ColorInputs }
    \cup { [fn |-> "getTeletextColorHex", input |-> color] : color \in ColorInputs }

FormatNext ==
  \/ CallTruncateText
  \/ CallTruncateLines
  \/ RenderContentArea
  \/ RenderHeader
  \/ CallIsValidTeletextColor
  \/ CallGetTeletextColorHex

\* The formatters, each called once with any of its inputs.
FormatInit == InitState /\ pageArg = InitialPage /\ call \in FormatCalls
FormatSpec == FormatInit /\ [][FormatNext]_vars

\* ------------------------------------------------------------ properties
\* The single-character digit strings, written out independently of the
\* hook's own test.
SingleDigits == { <<c>> : c \in DigitChars }

RECURSIVE Concat(_)
Concat(seqs) == IF seqs = <<>> THEN <<>> ELSE Head(seqs) \o Concat(Tail(seqs))

\* Keys of the trace, when every recorded operation is an addDigit call.
TraceKeys == [i \in 1..Len(trace) |-> trace[i].key]
OnlyAddDigit(n) == \A i \in 1..n : i <= Len(trace) /\ trace[i].op = "addDigit"
TypedDigits == SelectSeq(TraceKeys, LAMBDA k : k \in SingleDigits)

\* Base-10 value of three digit keys.
Value3(k1, k2, k3) == 100 * DigitVal(k1[1]) + 10 * DigitVal(k2[1]) + DigitVal(k3[1])

\* An entry of exactly three digit keystrokes whose resolution has run.
CompleteEntry ==
  /\ Len(trace) = 4
  /\ OnlyAddDigit(3)
  /\ \A i \in 1..3 : trace[i].key \in SingleDigits
  /\ trace[4].op = "resolve"

\* C1: three digit keystrokes typed from an empty buffer with no resolution
\* pending, followed by the scheduled resolution, leave currentPage at the
\* base-10 value of the three digits and the buffer empty, with exactly one
\* page change (the one resolution, none left pending); every later entry
\* behaves the same.
C1_ThreeDigitEntry ==
  CompleteEntry =>
    /\ currentPage = Value3(trace[1].key, trace[2].key, trace[3].key)
    /\ trace[4].page = currentPage
    /\ pageBuffer = <<>>
    /\ PendingResolves = {}

\* A later entry (the page before it was itself typed), with a leading zero.
C1_Witness ==
  /\ CompleteEntry
  /\ trace[1].key = <<"0">>
  /\ trace[2].key = <<"2">>
  /\ startPage \notin ({InitialPage} \cup NavTargets)
  /\ currentPage # startPage

\* C2 as stated: the buffer never holds 3 unresolved digits, and a
\* buffer-triggered page change always comes with the buffer reset.
C2_Original ==
  /\ Len(pageBuffer) # 3
  /\ (lastOp.op = "resolve" => pageBuffer = <<>> /\ currentPage = lastOp.page)

\* C2 amended: a buffer of 3 digits is observable, but only while the
\* resolution scheduled for exactly those digits is still pending; and the
\* resolution sets currentPage and empties the buffer in one step.
C2_Amended ==
  /\ Len(pageBuffer) = 3 =>
       \E i \in PendingResolves :
         timers[i].page = Value3(<<pageBuffer[1]>>, <<pageBuffer[2]>>, <<pageBuffer[3]>>)
  /\ (lastOp.op = "resolve" => pageBuffer = <<>> /\ currentPage = lastOp.page)

\* Three digits are visible with their resolution pending, after an earlier
\* resolution already ran.
C2_Witness ==
  /\ Len(pageBuffer) = 3
  /\ PendingResolves # {}
  /\ currentPage \notin ({InitialPage} \cup NavTargets)

\* C6: the buffer always has between 0 and 3 characters, all of them
\* decimal digits.
C6_BufferInvariant ==
  /\ Len(pageBuffer) \in 0..3
  /\ \A i \in 1..Len(pageBuffer) : pageBuffer[i] \in DigitChars

\* A full buffer has just been offered a multi-character string.
C6_Witness ==
  /\ Len(pageBuffer) = 3
  /\ lastOp.op = "addDigit"
  /\ Len(lastOp.key) = 2

\* C7: a non-digit input changes nothing in the hook; and for an entry made
\* of addDigit calls only, the buffer is the digits typed, in order, while
\* there are fewer than three (currentPage untouched), and once the
\* resolution has run currentPage is the value of the first three digits.
C7_State ==
  /\ (OnlyAddDigit(Len(trace)) /\ Len(TypedDigits) < 3) =>
       /\ pageBuffer = Concat(TypedDigits)
       /\ currentPage = startPage
       /\ PendingResolves = {}
  /\ (Len(trace) >= 4 /\ OnlyAddDigit(Len(trace) - 1)
        /\ trace[Len(trace)].op = "resolve") =>
       /\ Len(TypedDigits) >= 3
       /\ currentPage = Value3(TypedDigits[1], TypedDigits[2], TypedDigits[3])
       /\ pageBuffer = <<>>

C7_Step ==
  (lastOp'.op = "addDigit" /\ lastOp'.key \notin SingleDigits) =>
    UNCHANGED <<navVars, trace, startPage, libVars>>

C7_OnlyDigitsCount == []C7_State /\ [][C7_Step]_vars

\* A letter was offered after two digits of an entry.
C7_Witness ==
  /\ Len(trace) = 2
  /\ OnlyAddDigit(2)
  /\ lastOp.op = "addDigit"
  /\ lastOp.key = <<"a">>
  /\ Len(pageBuffer) = 2

\* C8: right after navigateToPage(n), currentPage is n and the buffer is
\* empty, whatever the buffer held.
C8_NavigateToPage ==
  lastOp.op = "navigateToPage" => currentPage = lastOp.page /\ pageBuffer = <<>>

\* navigateToPage was called on a three-digit buffer awaiting resolution.
C8_Witness ==
  /\ lastOp.op = "navigateToPage"
  /\ Len(trace) = 4
  /\ OnlyAddDigit(3)
  /\ PendingResolves # {}
  /\ lastOp.page # startPage

\* C9: clearBuffer empties the buffer and changes nothing else: not
\* currentPage, not the navigation flag, and no timer is scheduled.
C9_ClearBuffer ==
  [][lastOp'.op = "clearBuffer" =>
       /\ pageBuffer' = <<>>
       /\ UNCHANGED <<currentPage, isNavigating, timers>>]_vars

\* clearBuffer was called on a buffer of two digits.
C9_Witness ==
  /\ lastOp.op = "clearBuffer"
  /\ Len(trace) = 3
  /\ OnlyAddDigit(2)
  /\ pageBuffer = <<>>

\* C10: one or two digit keystrokes from an empty buffer leave exactly
\* those digits in the buffer, in the order typed, with no resolution
\* scheduled and currentPage as it was.
C10_Accumulate ==
  (Len(trace) \in 1..2 /\ OnlyAddDigit(Len(trace))) =>
    /\ pageBuffer = Concat(TraceKeys)
    /\ Len(pageBuffer) = Len(trace)
    /\ PendingResolves = {}
    /\ currentPage = startPage

\* Two different digits were typed, after an earlier entry moved the page.
C10_Witness ==
  /\ Len(trace) = 2
  /\ OnlyAddDigit(2)
  /\ trace[1].key = <<"2">>
  /\ trace[2].key = <<"0">>
  /\ startPage \notin ({InitialPage} \cup NavTargets)

\* C3 as stated: when a loader started for page p settles while p is
\* neither the displayed page nor the navigation target, dynamicContent and
\* isLoadingDynamic are left alone; and the page on display never carries
\* lines loaded for another page.
C3_Step ==
  (/\ lastOp'.op \in {"loadResolved", "loadRejected"}
   /\ lastOp'.page # displayedPage
   /\ lastOp'.page # currentPage) =>
    UNCHANGED <<dynamicContent, isLoadingDynamic>>

C3_State ==
  (screenState = "display" /\ dynamicContent.kind = "loaded") =>
    dynamicContent.page = displayedPage

C3_StaleFetchIgnored == []C3_State /\ [][C3_Step]_vars

\* C4 as stated, in the form a finite run refutes: the screen leaves
\* 'static' or 'loading' only when a timer fires (or a new navigation
\* starts one), so a state that is booting or clearing always has the timer
\* that ends it pending; without one the screen stays there for good.
C4_NeverStuck ==
  screenState \in {"static", "loading"} =>
    (initTimer # "none" \/ transTimers # {})

\* C5 as stated: at most one transition timer is pending, and a navigation
\* that arrives while one is pending cancels it and leaves exactly one timer
\* pending, for the newest target.
C5_Step ==
  (isInitialized /\ transTimers # {} /\ currentPage' # currentPage) =>
    transTimers' = {currentPage'}

C5_RestartsForNewest ==
  [](Cardinality(transTimers) <= 1) /\ [][C5_Step]_vars

\* C11: addDigit changes nothing while the buffer holds 3 digits; and after
\* a burst of four or more digits followed by the scheduled resolution,
\* currentPage is the value of the first three digits, the buffer is empty
\* and nothing is scheduled for the digits after the third.
C11_State ==
  (/\ Len(trace) >= 5
   /\ OnlyAddDigit(Len(trace) - 1)
   /\ \A i \in 1..(Len(trace) - 1) : trace[i].key \in SingleDigits
   /\ trace[Len(trace)].op = "resolve") =>
    /\ currentPage = Value3(trace[1].key, trace[2].key, trace[3].key)
    /\ pageBuffer = <<>>
    /\ PendingResolves = {}

C11_Step ==
  (lastOp'.op = "addDigit" /\ Len(pageBuffer) = 3) => UNCHANGED navVars

C11_ExtraDigitsDropped == []C11_State /\ [][C11_Step]_vars

\* A burst of at least four digits has resolved; the fourth digit differs
\* from the first.
C11_Witness ==
  /\ Len(trace) >= 5
  /\ OnlyAddDigit(Len(trace) - 1)
  /\ trace[Len(trace)].op = "resolve"
  /\ trace[1].key = <<"0">>
  /\ trace[4].key = <<"2">>
  /\ pageBuffer = <<>>


\* C12: boot sequence. The screen shows static noise and no page for the
\* first 1000 ms; the boot timer then blanks it ('loading'); 100 ms later
\* the first page is committed, in state 'display' with page 100; 'display'
\* is never entered before the boot timer has elapsed.
C12_BootSequence ==
  /\ now < BootDelay =>
       /\ screenState = "static"
       /\ midFrame.screenState = "static"
       /\ initTimer = "outer"
  /\ screenState = "static" => now <= BootDelay /\ ~isInitialized
  /\ lastOp.op = "bootTimer" => now = BootDelay /\ screenState = "loading"
  /\ initTimer = "inner" =>
       /\ screenState = "loading"
       /\ now >= BootDelay
       /\ now <= BootDelay + LoadingDelay
  /\ lastOp.op = "initDone" =>
       /\ now = BootDelay + LoadingDelay
       /\ midFrame = Frame("display", 100)
  /\ (screenState = "display" \/ midFrame.screenState = "display") =>
       /\ now >= BootDelay + LoadingDelay
       /\ initTimer = "none"

\* The first page has just been committed, 1100 ms after the start.
C12_Witness ==
  /\ lastOp.op = "initDone"
  /\ screenState = "display"
  /\ displayedPage = 100
  /\ now = BootDelay + LoadingDelay


\* C13: after boot, a resolution to a page q other than the displayed page
\* p blanks the screen ('loading') with p still the displayed page number
\* and a timer for q pending; the displayed page number changes only on a
\* step from 'loading' to 'display', to the current page; and when that
\* timer fires with no key typed since the resolution, 'display' is entered
\* with header and content of q and an empty buffer.
C13_Step ==
  /\ (/\ lastOp'.op = "resolve"
      /\ isInitialized
      /\ screenState = "display"
      /\ lastOp'.page # displayedPage) =>
        /\ midFrame' = Frame("display", displayedPage)
        /\ screenState' = "loading"
        /\ displayedPage' = displayedPage
        /\ transTimers' = {lastOp'.page}
  /\ displayedPage' # displayedPage =>
        /\ screenState = "loading"
        /\ screenState' = "display"
        /\ displayedPage' = currentPage
  /\ (/\ lastOp'.op = "transitionTimer"
      /\ trace # <<>>
      /\ trace[Len(trace)].op = "resolve") =>
        /\ screenState' = "display"
        /\ displayedPage' = trace[Len(trace)].page
        /\ ContentShown'.page = trace[Len(trace)].page
        /\ ContentShown'.kind \in {"static", "fetching"}
        /\ pageBuffer' = <<>>

C14_WithinBudget == Awaiting => waited <= TransitionBudget


\* C15: a navigation whose target is the page being displayed is a no-op
\* for the screen: the state stays 'display', the displayed page, the
\* dynamic content and the loading flag are unchanged, no timer is started
\* and no fetch is issued.
C15_Step ==
  (/\ lastOp'.op = "resolve"
   /\ screenState = "display"
   /\ lastOp'.page = displayedPage) =>
     /\ UNCHANGED screenVars
     /\ UNCHANGED <<transLeft, bootLeft>>
     /\ midFrame' = Frame("display", displayedPage)

C15_SamePageNoOp == [][C15_Step]_vars

\* The number of the displayed page was typed and resolved while the page
\* was on display.
C15_Witness ==
  /\ lastOp.op = "resolve"
  /\ lastOp.page = displayedPage
  /\ screenState = "display"
  /\ isInitialized
  /\ displayedPage # 100


\* C16: when the loader of a page rejects or throws, the fixed fallback
\* block becomes the dynamic content and the loading flag is cleared; the
\* screen state, the displayed page and the timers are left alone, so a
\* page on display stays on display, now showing the fallback block, and a
\* later navigation is taken as usual.
C16_Step ==
  /\ lastOp'.op = "loadRejected" =>
       /\ dynamicContent' = ErrorBlock
       /\ isLoadingDynamic' = FALSE
       /\ ContentShown' = ErrorBlock
       /\ UNCHANGED <<screenState, displayedPage, isInitialized, currentPage,
                      transTimers, effectTimer>>
       /\ (screenState = "display" /\ displayedPage = lastOp'.page) =>
             screenState' = "display" /\ displayedPage' = lastOp'.page
  /\ (/\ lastOp.op = "loadRejected"
      /\ lastOp'.op = "setCurrentPage"
      /\ screenState = "display") =>
        /\ screenState' = "loading"
        /\ dynamicContent' = Null
        /\ transTimers' = {currentPage'}

C16_LoaderFailure == [][C16_Step]_vars

\* The loader of the page on display has just rejected.
C16_Witness ==
  /\ lastOp.op = "loadRejected"
  /\ lastOp.page = displayedPage
  /\ screenState = "display"
  /\ dynamicContent = ErrorBlock
  /\ ~isLoadingDynamic


\* A loadDynamicContent call reached its loader in this step.
FetchStarted == \E p \in DynamicPages : fetches'[p] > fetches[p]

\* C17 as stated: for a target page that declares dynamic content, the
\* fetch is started during the clearing state, before 'display' is
\* entered, and 'display' is entered with the resolved content (fetched
\* content or failure fallback), not with the page's static placeholder.
C17_OriginalStep ==
  /\ FetchStarted => screenState' = "loading"
  /\ (/\ lastOp'.op = "transitionTimer"
      /\ HasDynamic(lastOp'.page)) =>
        ContentShown'.kind \in {"loaded", "error"}

C17_AmendedStep ==
  /\ FetchStarted =>
       /\ lastOp'.op = "transitionTimer"
       /\ screenState = "loading"
       /\ screenState' = "display"
  /\ (/\ lastOp'.op = "transitionTimer"
      /\ HasDynamic(lastOp'.page)) =>
        /\ fetches'[lastOp'.page] = fetches[lastOp'.page] + 1
        /\ screenState' = "display"
        /\ displayedPage' = lastOp'.page
        /\ ContentShown' = [kind |-> "fetching", page |-> lastOp'.page]
  /\ lastOp'.op = "loadResolved" => ContentShown' = Loaded(lastOp'.page)
  /\ lastOp'.op = "loadRejected" => ContentShown' = ErrorBlock

IsLines(content) ==
  /\ DOMAIN content = 1..Len(content)
  /\ \A i \in 1..Len(content) :
       /\ DOMAIN content[i] = 1..Len(content[i])
       /\ \A j \in 1..Len(content[i]) : Len(content[i][j]) = 1

\* At most 23 lines of at most 40 characters.
FitsGrid(content) ==
  /\ Len(content) <= CONTENT_ROWS
  /\ \A i \in 1..Len(content) : Len(content[i]) <= COLUMNS

\* A not-found block for page n: the text contains "NOT FOUND" and the
\* number, within the grid.
NotFoundBlock(content, n) ==
  /\ content # <<>>
  /\ Contains(Join(content), <<"N", "O", "T", " ", "F", "O", "U", "N", "D">>)
  /\ Contains(Join(content), NumStr(n))
  /\ FitsGrid(content)

\* The lines handed to TeletextPage when they come from the displayed
\* page's definition.
LinesShown ==
  LET pageDefinition == GetPage(displayedPage) IN
  IF isLoadingDynamic
    THEN SubSeq(pageDefinition.content, 1,
                IF Len(pageDefinition.content) < 3 THEN Len(pageDefinition.content) ELSE 3)
           \o << <<>>, <<"F", "E", "T", "C", "H", "I", "N", "G", " ", "D", "A", "T", "A", ".", ".", ".">>, <<>>, <<"P", "l", "e", "a", "s", "e", " ", "w", "a", "i", "t", ".">> >>
    ELSE pageDefinition.content

\* C18: a page number without registered content and outside the detail
\* ranges is displayed as the not-found block: the lines on display are
\* built from the error page of that number, contain "NOT FOUND" and the
\* number, and fit in 23 lines of 40 characters.
C18_NotFoundShown ==
  (/\ screenState = "display"
   /\ displayedPage \notin StaticPages
   /\ ~IsDetailPage(displayedPage)) =>
     /\ ContentShown.kind \in {"static", "fetching"}
     /\ ContentShown.page = displayedPage
     /\ NotFoundBlock(LinesShown, displayedPage)

\* C19: getPage is total: for every page number it returns a definition
\* whose pageNumber is that number and whose content is a list of lines,
\* and the static registry's own entry when the number has one.
C19_Total ==
  lookup # <<>> =>
    /\ DOMAIN lookup[1] = {"pageNumber", "title", "content", "dynamicContent"}
    /\ lookup[1].pageNumber = pageArg
    /\ IsLines(lookup[1].content)
    /\ pageArg \in StaticPages => lookup[1] = pageRegistry[pageArg]

\* getPage was called for detail page 203 with three news articles cached.
C19_Witness ==
  /\ lookup # <<>>
  /\ pageArg = 203
  /\ Len(articleCache["news"]) = 3
  /\ Len(lookup[1].content) = CONTENT_ROWS
  /\ lookup[1].content[5] = <<"N", "E", "W", "S", " ", "I", "T", "E", "M", " ", "3">>

\* The error page: titled 'Error', with a non-empty content that contains
\* "NOT FOUND" and fits the grid.
IsErrorPage(page) ==
  /\ page.title = <<"E", "r", "r", "o", "r">>
  /\ page.content # <<>>
  /\ Contains(Join(page.content), <<"N", "O", "T", " ", "F", "O", "U", "N", "D">>)
  /\ FitsGrid(page.content)

FetchFailureSettled ==
  /\ lastOp.op = "loaderSettles"
  /\ lastOp.key[1] \in {"networkError", "notOk", "badStatus"}

\* C21: when the feed fetch fails, the loader of the list page returns the
\* failure block with 'Service temporarily unavailable.' and does not throw.
C21_FailureBlock ==
  FetchFailureSettled =>
    /\ returned # <<>>
    /\ Contains(Join(returned[1].lines), <<"S", "e", "r", "v", "i", "c", "e", " ", "t", "e", "m", "p", "o", "r", "a", "r", "i", "l", "y", " ", "u", "n", "a", "v", "a", "i", "l", "a", "b", "l", "e", ".">>)

\* C23: truncateText(s) has at most 40 characters, is s when s has at most
\* 40 characters and is the first 40 characters of s otherwise.
C23_TruncateText ==
  (call.fn = "truncateText" /\ result # <<>>) =>
    LET s == call.input
        t == result[1]
    IN /\ Len(t) <= 40
       /\ Len(s) <= 40 => t = s
       /\ Len(s) > 40 => /\ Len(t) = 40
                         /\ \A i \in 1..40 : t[i] = s[i]

\* truncateText has cut the last characters of a text of more than 40.
C23_Witness ==
  /\ call.fn = "truncateText"
  /\ result # <<>>
  /\ Len(call.input) > 40
  /\ Len(result[1]) = 40

\* C24: truncateLines(L) has at most 23 entries, is L when L has at most
\* 23 entries and is the first 23 entries of L, in their order, otherwise.
C24_TruncateLines ==
  (call.fn = "truncateLines" /\ result # <<>>) =>
    LET L == call.input
        T == result[1]
    IN /\ Len(T) <= 23
       /\ Len(L) <= 23 => T = L
       /\ Len(L) > 23 => /\ Len(T) = 23
                         /\ \A i \in 1..23 : T[i] = L[i]

\* truncateLines has cut the last lines of a list of more than 23.
C24_Witness ==
  /\ call.fn = "truncateLines"
  /\ result # <<>>
  /\ Len(call.input) > 23
  /\ Len(result[1]) = 23

\* The eight palette names and the eight canonical hex values.
EightNames ==
  { <<"b", "l", "a", "c", "k">>, <<"w", "h", "i", "t", "e">>, <<"r", "e", "d">>, <<"g", "r", "e", "e", "n">>, <<"b", "l", "u", "e">>, <<"y", "e", "l", "l", "o", "w">>, <<"c", "y", "a", "n">>, <<"m", "a", "g", "e", "n", "t", "a">> }
CanonicalHex ==
  { <<"#", "0", "0", "0", "0", "0", "0">>, <<"#", "F", "F", "F", "F", "F", "F">>, <<"#", "F", "F", "0", "0", "0", "0">>, <<"#", "0", "0", "F", "F", "0", "0">>, <<"#", "0", "0", "0", "0", "F", "F">>, <<"#", "F", "F", "F", "F", "0", "0">>, <<"#", "0", "0", "F", "F", "F", "F">>, <<"#", "F", "F", "0", "0", "F", "F">> }
UpperHexDigits == { "0", "1", "2", "3", "4", "5", "6", "7", "8", "9", "A", "B", "C", "D", "E", "F" }
IsHexColor(s) == Len(s) = 7 /\ s[1] = "#" /\ \A i \in 2..7 : s[i] \in UpperHexDigits

\* C30: isValidTeletextColor is true for the eight lowercase palette names
\* and false for every other string; for each of the eight names
\* getTeletextColorHex returns '#' and six uppercase hex digits, one of the
\* eight canonical values.
C30_Palette ==
  /\ (call.fn = "isValidTeletextColor" /\ result # <<>>) =>
       (result[1] <=> call.input \in EightNames)
  /\ (call.fn = "getTeletextColorHex" /\ result # <<>> /\ call.input \in EightNames) =>
       /\ result[1].kind = "string"
       /\ IsHexColor(result[1].value)
       /\ result[1].value \in CanonicalHex

\* isValidTeletextColor has rejected a name that is no palette name.
C30_Witness ==
  /\ call.fn = "isValidTeletextColor"
  /\ result = <<FALSE>>
  /\ call.input \notin EightNames

Min(a, b) == IF a < b THEN a ELSE b

\* C22: ContentArea renders min(lines.length, 23) rows, and row i is the
\* first 40 characters of line i, the whole line when it has at most 40.
C22_ContentRows ==
  (call.fn = "ContentArea" /\ result # <<>>) =>
    LET lines == call.input.lines
        rows == result[1]
    IN /\ Len(rows) = Min(Len(lines), 23)
       /\ \A i \in 1..Len(rows) :
            /\ Len(rows[i].text) = Min(Len(lines[i]), 40)
            /\ \A c \in 1..Len(rows[i].text) : rows[i].text[c] = lines[i][c]

\* ContentArea has cut both the rows and a line of its content.
C22_Witness ==
  /\ call.fn = "ContentArea"
  /\ result # <<>>
  /\ Len(call.input.lines) > 23
  /\ Len(result[1]) = 23
  /\ \E i \in 1..23 : Len(call.input.lines[i]) > 40 /\ Len(result[1][i].text) = 40

\* The color of the character at content row i (from 1) and column c
\* (from 0) of the rendered rows.
ColorAt(rows, i, c) == IF rows[i].spans THEN rows[i].color[c + 1] ELSE NoColor

\* The color map has an annotation at grid row r and column c.
Annotated(colors, r, c) ==
  colors.defined /\ r \in DOMAIN colors.map /\ c \in DOMAIN colors.map[r]

\* C28: an annotation at grid row r and column c colors the character at
\* content row r - 2 and column c of the truncated output and no other; an
\* annotation whose row or column lies outside the rendered rows and
\* characters changes no character and no color.
C28_Annotations ==
  (call.fn = "ContentArea" /\ result # <<>>) =>
    LET lines == call.input.lines
        colors == call.input.colors
        rows == result[1]
    IN \A i \in 1..Len(rows) :
         /\ rows[i].text = SubSeq(lines[i], 1, Min(Len(lines[i]), 40))
         /\ \A c \in 0..(Len(rows[i].text) - 1) :
              IF Annotated(colors, i + 1, c)
                THEN colors.map[i + 1][c] \in EightNames =>
                       ColorAt(rows, i, c) = TELETEXT_COLORS[colors.map[i + 1][c]]
                ELSE ColorAt(rows, i, c) = NoColor

\* An annotation of the last column of a line that was cut has colored
\* the character there.
C28_Witness ==
  /\ call.fn = "ContentArea"
  /\ result # <<>>
  /\ Annotated(call.input.colors, 7, 39)
  /\ Len(result[1]) >= 6
  /\ Len(call.input.lines[6]) > 40
  /\ ColorAt(result[1], 6, 39) \in CanonicalHex

\* C29: a color annotation whose value is not one of the eight palette
\* names leaves its character without a color and does not make the
\* render fail, so every color on a rendered character is one of the
\* eight canonical hex values.
C29_OnlyPaletteColors ==
  (call.fn = "ContentArea" /\ result # <<>>) =>
    LET colors == call.input.colors
        rows == result[1]
    IN \A i \in 1..Len(rows) : \A c \in 0..(Len(rows[i].text) - 1) :
         /\ ColorAt(rows, i, c) \in CanonicalHex \cup {NoColor}
         /\ (Annotated(colors, i + 1, c) /\ colors.map[i + 1][c] \notin EightNames)
              => ColorAt(rows, i, c) = NoColor

\* A character annotated with a color CSS knows and the palette does not
\* was rendered without a color.
C29_Witness ==
  /\ call.fn = "ContentArea"
  /\ result # <<>>
  /\ call.input.colors = OneAnnotation(2, 0, <<"o", "r", "a", "n", "g", "e">>)
  /\ Len(result[1]) >= 1
  /\ result[1][1].spans
  /\ ColorAt(result[1], 1, 0) = NoColor

\* n written with at least two and three digits.
TwoDigits(n) == << DigitChar(n \div 10), DigitChar(n % 10) >>
ThreeDigits(n) == << DigitChar(n \div 100), DigitChar((n \div 10) % 10), DigitChar(n % 10) >>
Clock(time) ==
  TwoDigits(time.hours) \o <<":">> \o TwoDigits(time.minutes) \o <<":">> \o TwoDigits(time.seconds)
HeaderCalled == call.fn = "Header" /\ result # <<>>

\* C25: for a page name of at most 28 characters, a page number in 0-999
\* and any time of day, the header has exactly 40 characters, starts with
\* the page name, ends with the time as HH:MM:SS and contains 'P' and the
\* page number padded with zeros to three digits.
C25_HeaderStructure ==
  (HeaderCalled /\ Len(call.input.pageName) <= 28) =>
    LET h == result[1].headerText
        name == call.input.pageName
    IN /\ ~result[1].thrown
       /\ Len(h) = 40
       /\ SubSeq(h, 1, Len(name)) = name
       /\ SubSeq(h, 33, 40) = Clock(call.input.currentTime)
       /\ Contains(h, <<"P">> \o ThreeDigits(call.input.pageNumber))

\* The header of a page name of 28 characters and of a page number of one
\* digit was built.
C25_Witness ==
  /\ HeaderCalled
  /\ Len(call.input.pageName) = 28
  /\ call.input.pageNumber = 7
  /\ Len(result[1].headerText) = 40

\* C26: building the header and formatting page content do not raise for
\* any input; for a page name so long that name, page token and time
\* exceed 40 characters the header is returned unclipped.
C26_Total ==
  HeaderCalled =>
    LET name == call.input.pageName
        h == result[1].headerText
    IN /\ ~result[1].thrown
       /\ Len(name) + 4 + 8 > 40 =>
            /\ Len(h) >= Len(name) + 4 + 8
            /\ SubSeq(h, 1, Len(name)) = name

\* C27: the free space 40 - (name + 4 + 8) of the header is split so that
\* the gap before the page token is the floor of half of it and the gap
\* after the token is the rest: the gaps differ by at most one and an odd
\* character goes after the token.
C27_GapSplit ==
  (HeaderCalled /\ ~result[1].thrown) =>
    LET name == call.input.pageName
        h == result[1].headerText
        free == 40 - (Len(name) + 4 + 8)
        before == free \div 2
        after == free - before
        token == <<"P">> \o ThreeDigits(call.input.pageNumber)
    IN /\ free >= 0
       /\ after - before \in {0, 1}
       /\ Len(h) = Len(name) + before + 4 + after + 8
       /\ \A i \in 1..before : h[Len(name) + i] = " "
       /\ SubSeq(h, Len(name) + before + 1, Len(name) + before + 4) = token
       /\ \A i \in 1..after : h[Len(name) + before + 4 + i] = " "

\* A header with an odd free space was built: the gap after the page
\* token is one longer than the gap before it.
C27_Witness ==
  /\ HeaderCalled
  /\ ~result[1].thrown
  /\ Len(call.input.pageName) = 13
  /\ SubSeq(result[1].headerText, 14, 20) = Spaces(7)
  /\ result[1].headerText[21] = "P"
  /\ SubSeq(result[1].headerText, 25, 32) = Spaces(8)

\* C31: the buffer display of an empty buffer is empty and nothing is
\* shown; the display of a buffer of one or two digits is the digits and
\* as many '.' as make three characters; the overlay is shown exactly when
\* the buffer is not empty.
C31_BufferDisplay ==
  /\ AppPageBuffer.shown <=> pageBuffer # <<>>
  /\ pageBuffer = <<>> => AppPageBuffer.text = <<>>
  /\ Len(pageBuffer) \in {1, 2} =>
       /\ Len(AppPageBuffer.text) = 3
       /\ SubSeq(AppPageBuffer.text, 1, Len(pageBuffer)) = pageBuffer
       /\ \A i \in (Len(pageBuffer) + 1)..3 : AppPageBuffer.text[i] = "."

\* Two digits were typed and the overlay shows them and one dot.
C31_Witness ==
  /\ Len(pageBuffer) = 2
  /\ lastOp.op = "addDigit"
  /\ AppPageBuffer = [shown |-> TRUE, text |-> pageBuffer \o <<".">>]

C32_Step ==
  \A event \in WindowEvents :
    WindowEvent(event) =>
      IF event.type = "keydown" /\ event.key \in SingleDigits
        THEN /\ lastOp' = Op("addDigit", event.key, 0)
             /\ Len(trace') \in {1, Len(trace) + 1}
             /\ trace'[Len(trace')] = Op("addDigit", event.key, 0)
        ELSE /\ lastOp'.op # "addDigit"
             /\ UNCHANGED <<navVars, trace>>

\* C32: a key press is a digit exactly when its key is one character in
\* '0'-'9'; addDigit is called once for each digit key press, with that
\* digit, whatever modifier is held, and is called for no other key press
\* and for no pointer event.
C32_OnlyDigitKeys == [][C32_Step]_vars

\* A digit key press has called addDigit with its digit.
C32_Witness ==
  /\ lastOp = Op("addDigit", <<"2">>, 0)
  /\ Len(trace) = 2
  /\ pageBuffer = <<"0", "2">>

\* Three digits were typed from a quiescent state, then clearBuffer or
\* navigateToPage was called any number of times, then the scheduled
\* callback ran.
ResolvedAfterCalls ==
  /\ Len(trace) >= 5
  /\ OnlyAddDigit(3)
  /\ \A i \in 1..3 : trace[i].key \in SingleDigits
  /\ \A i \in 4..(Len(trace) - 1) : trace[i].op \in {"clearBuffer", "navigateToPage"}
  /\ trace[Len(trace)].op = "resolve"
  /\ lastOp.op = "resolve"

C33_State ==
  ResolvedAfterCalls =>
    /\ currentPage = Value3(trace[1].key, trace[2].key, trace[3].key)
    /\ pageBuffer = <<>>
    /\ PendingResolves = {}

C33_Step ==
  Cardinality(PendingResolves') < Cardinality(PendingResolves) =>
    /\ lastOp'.op = "resolve"
    /\ Cardinality(PendingResolves') = Cardinality(PendingResolves) - 1

\* C33: once the third digit is in the buffer, the scheduled resolution
\* takes effect exactly once: clearBuffer and navigateToPage calls made
\* before the callback runs do not cancel it, and after it has run
\* currentPage is the typed three-digit value, also when navigateToPage set
\* another page in between, and the buffer is empty.
C33_ResolutionNotCancelled == []C33_State /\ [][C33_Step]_vars

\* navigateToPage was called between the third digit and the callback,
\* and the callback has replaced its target by the typed value.
C33_Witness ==
  /\ ResolvedAfterCalls
  /\ trace[4].op = "navigateToPage"
  /\ trace[4].page # currentPage
  /\ currentPage = Value3(trace[1].key, trace[2].key, trace[3].key)

IsPrefix(s, t) == Len(s) <= Len(t) /\ SubSeq(t, 1, Len(s)) = s

C34_Step ==
  ~IsPrefix(pageBuffer, pageBuffer') =>
    \/ lastOp'.op \in {"clearBuffer", "navigateToPage"}
    \/ /\ lastOp'.op = "resolve"
       /\ Len(pageBuffer) = 3
       /\ lastOp'.page = Value3(<<pageBuffer[1]>>, <<pageBuffer[2]>>, <<pageBuffer[3]>>)

\* C34: a digit appended to the buffer is removed only by the resolution
\* of the three-digit entry that contains it, by clearBuffer or by
\* navigateToPage; a deferred resolution callback does not clear digits
\* typed for a later entry.
C34_NoDigitLost == [][C34_Step]_vars


\* C35: the first page displayed after boot is page 100 whatever the
\* current page is: no page is displayed and no transition timer exists
\* before the boot's inner timer fires, and the render that timer causes
\* shows page 100 in 'display'. A current page q other than 100 at that
\* moment is not lost: right after that render the screen is blanked again
\* with the 100 ms timer for q pending, and from there q is displayed
\* unless the current page changes again first.
C35_State ==
  ~isInitialized =>
    /\ screenState # "display"
    /\ midFrame.screenState # "display"
    /\ transTimers = {}

C35_Step ==
  (~isInitialized /\ isInitialized') =>
    /\ midFrame' = Frame("display", 100)
    /\ displayedPage' = 100
    /\ IF currentPage = 100
         THEN screenState' = "display" /\ transTimers' = {}
         ELSE /\ screenState' = "loading"
              /\ transTimers' = {currentPage}
              /\ effectTimer' = currentPage

C35_Displays(q) ==
  (lastOp.op = "initDone" /\ currentPage = q)
    ~> ((screenState = "display" /\ displayedPage = q) \/ currentPage # q)

C35_FirstPage100 ==
  /\ []C35_State
  /\ [][C35_Step]_vars
  /\ \A q \in ScreenPages \ {100} : C35_Displays(q)

\* The boot has just ended with page 200 as the current page: page 100 was
\* rendered and the screen is blank again.
C35_Witness ==
  /\ lastOp.op = "initDone"
  /\ currentPage = 200
  /\ midFrame = Frame("display", 100)
  /\ screenState = "loading"
  /\ transTimers = {200}


\* C36: the 'FETCHING DATA...' placeholder is on a displayed page only
\* while a fetch started for that page is in flight: a displayed page that
\* shows it has a loader and a fetch of its own pending, and the settling
\* of another page's fetch does not remove it from a displayed page whose
\* own fetch is still pending.
C36_State ==
  (screenState = "display" /\ ContentShown.kind = "fetching") =>
    /\ HasDynamic(displayedPage)
    /\ fetches[displayedPage] > 0

C36_Step ==
  ( /\ screenState = "display"
    /\ HasDynamic(displayedPage)
    /\ ContentShown.kind = "fetching"
    /\ lastOp'.op \in {"loadResolved", "loadRejected"}
    /\ lastOp'.page # displayedPage )
  => ContentShown'.kind = "fetching"

C36_PlaceholderOwnFetch == []C36_State /\ [][C36_Step]_vars


\* The category a detail page belongs to, by its hundreds, and the name
\* its articles are credited to.
DetailCategory(pageNumber) ==
  CASE pageNumber \div 100 = 2 -> "news"
    [] pageNumber \div 100 = 3 -> "tech"
    [] pageNumber \div 100 = 5 -> "sports"
SourceName(category) ==
  CASE category = "news" -> <<"B", "B", "C", " ", "N", "E", "W", "S">>
    [] category = "tech" -> <<"T", "H", "E", " ", "V", "E", "R", "G", "E">>
    [] category = "sports" -> <<"E", "S", "P", "N", " ", "S", "P", "O", "R", "T", "S">>

\* C37: no category's cache holds more than 5 articles, and detail page
\* base+i (i in 1..5, base 200, 300 or 500) shows cached article i of the
\* category of that base when at least i articles are cached (the source
\* name, the article's title in capitals, the way back to the base page),
\* and the 'ARTICLE NOT FOUND' block otherwise.
C37_DetailPages ==
  /\ \A category \in Categories : Len(articleCache[category]) <= 5
  /\ (lookup # <<>> /\ IsDetailPage(pageArg)) =>
       LET category == DetailCategory(pageArg)
           base == BasePage(category)
           i == pageArg - base
           content == lookup[1].content
       IN IF i <= Len(articleCache[category])
            THEN /\ content[1] = SourceName(category)
                 /\ content[5] = ToUpperCase(articleCache[category][i].title)
                 /\ content[Len(content)] = <<"P", "r", "e", "s", "s", " ">> \o NumStr(base) \o <<" ", "f", "o", "r", " ", "h", "e", "a", "d", "l", "i", "n", "e", "s">>
                 /\ ~Contains(Join(content), <<"N", "O", "T", " ", "F", "O", "U", "N", "D">>)
            ELSE /\ content[1] = <<"A", "R", "T", "I", "C", "L", "E", " ", "N", "O", "T", " ", "F", "O", "U", "N", "D">>
                 /\ content[Len(content)] = <<"P", "r", "e", "s", "s", " ">> \o NumStr(base) \o <<" ", "f", "o", "r", " ", "h", "e", "a", "d", "l", "i", "n", "e", "s">>

\* getPage was called for detail page 505 after a sports feed of seven
\* items was cached: five are kept and the fifth is shown.
C37_Witness ==
  /\ lookup # <<>>
  /\ pageArg = 505
  /\ Len(articleCache["sports"]) = 5
  /\ Len(articleCache["news"]) = 3
  /\ lookup[1].content[5] = <<"S", "P", "O", "R", "T", "S", " ", "I", "T", "E", "M", " ", "5">>


\* The headline of article i on a list page: its number, its title and
\* the detail page to type.
IsHeadline(line, i, article, base) ==
  /\ Len(line) = COLUMNS
  /\ IsPrefix(NumStr(i) \o <<".", " ">> \o article.title, line)
  /\ SubSeq(line, COLUMNS - 3, COLUMNS) = <<"P">> \o NumStr(base + i)

\* C38: a call of a list-page loader requests the feed only when the cache
\* of its category is empty or its last fetch is 5 minutes old or older;
\* otherwise the call requests nothing, returns the list page of the cached
\* articles (title, one headline per cached article) and leaves the cache
\* and its last-fetched time as they are.
C38_Step ==
  LET category == CategoryOf(pageArg)
      articles == articleCache[category]
      stale == dateNow - lastFetched[category] >= 5 * 60 * 1000
  IN /\ lastOp'.op = "loaderFetches" =>
          /\ Len(articles) = 0 \/ stale
          /\ [category |-> category, now |-> dateNow] \in loads'
          /\ articleCache' = articleCache
          /\ lastFetched' = lastFetched
     /\ lastOp'.op = "loaderCached" =>
          /\ Len(articles) > 0 /\ ~stale
          /\ loads' = loads
          /\ articleCache' = articleCache
          /\ lastFetched' = lastFetched
          /\ returned'[1].lines[1] = ListTitle(category)
          /\ Len(returned'[1].lines) = 9 + 2 * Len(articles)
          /\ \A i \in 1..Len(articles) :
               IsHeadline(returned'[1].lines[3 + 2 * i], i, articles[i], BasePage(category))

C38_FetchOnlyWhenStale == [][C38_Step]_vars

\* A loader call answered from a cache of five articles fetched four
\* minutes earlier, with no request in flight.
C38_Witness ==
  /\ lastOp.op = "loaderCached"
  /\ Len(articleCache[CategoryOf(pageArg)]) = 5
  /\ dateNow - lastFetched[CategoryOf(pageArg)] = 4 * 60 * 1000
  /\ loads = {}
  /\ returned # <<>>


\* C39: a failed feed fetch leaves the cache of its category unchanged:
\* when a refresh of a category with cached articles settles with a
\* network error, a non-OK answer or a body whose status is not 'ok', the
\* cached articles and the last-fetched time of that category are what
\* they were, and every article a detail page could show is still there.
C39_Step ==
  LET category == CategoryOf(pageArg) IN
  ( /\ lastOp'.op = "loaderSettles"
    /\ lastOp'.key[1] \in {"networkError", "notOk", "badStatus"}
    /\ Len(articleCache[category]) > 0 )
  => /\ articleCache'[category] = articleCache[category]
     /\ lastFetched'[category] = lastFetched[category]
     /\ \A i \in 1..5 : GetCachedArticle(category, i) # <<>> =>
                          GetCachedArticle(category, i)' # <<>>

C39_FailureKeepsCache == [][C39_Step]_vars
====
